---- MODULE Spec2Model ----
(***************************************************************************)
(* FormatNormalizer media tool: parameter resolution, the job pipelines of *)
(* the normalizer implementations, and the job bookkeeping around them.    *)
(*                                                                         *)
(* Python values are tagged tuples so that values of different Python      *)
(* types can sit in one mapping: <<"int", n>>, <<"str", s>>, <<"none">>,   *)
(* <<"dict", d>>, <<"list", l>>.  A dict d is a sequence of <<key, value>> *)
(* pairs in insertion order, as a Python dict keeps them.                  *)
(***************************************************************************)
EXTENDS Integers, Sequences, FiniteSets, TLC

\* ------------------------------------------------------------------------
\* Python values and dict operations
\* ------------------------------------------------------------------------
I(n) == <<"int", n>>
S(s) == <<"str", s>>
None == <<"none">>
D(d) == <<"dict", d>>
L(l) == <<"list", l>>
\* f"{n}k": the decimal text of n followed by the letter k
NumK(n) == <<"numk", n>>

IsDict(v) == v[1] = "dict"
IsList(v) == v[1] = "list"
IsStr(v) == v[1] = "str"

\* Python truthiness of a value
Truthy(v) ==
  CASE v[1] = "none" -> FALSE
    [] v[1] = "int" -> v[2] # 0
    [] v[1] = "str" -> v[2] # ""
    [] v[1] = "dict" -> Len(v[2]) > 0
    [] v[1] = "list" -> Len(v[2]) > 0
    [] OTHER -> TRUE

DictKeys(d) == { d[i][1] : i \in 1..Len(d) }
DictHas(d, k) == k \in DictKeys(d)
DictGet(d, k, default) ==
  IF DictHas(d, k) THEN d[CHOOSE i \in 1..Len(d) : d[i][1] = k][2] ELSE default
\* d[k] = v: an existing key keeps its position, a new key goes last
DictPut(d, k, v) ==
  IF DictHas(d, k)
    THEN [i \in 1..Len(d) |-> IF d[i][1] = k THEN <<k, v>> ELSE d[i]]
    ELSE Append(d, <<k, v>>)
\* d.update(e): e's items are assigned in e's order
RECURSIVE DictUpdate(_, _)
DictUpdate(d, e) ==
  IF e = <<>> THEN d ELSE DictUpdate(DictPut(d, e[1][1], e[1][2]), Tail(e))

\* the result of a call that may raise: ok = FALSE means it raised
Ok(v) == [ok |-> TRUE, val |-> v]
Raised(msg) == [ok |-> FALSE, val |-> S(msg)]

\* str.lower() on the names the model uses
Lower(s) ==
  CASE s = "MP4" -> "mp4"
    [] s = "MOV" -> "mov"
    [] OTHER -> s

\* ------------------------------------------------------------------------
\* format_normalizer/normalizer.py: parameter resolution
\* ------------------------------------------------------------------------
_get_default_codec(format_type) ==
  CASE Lower(format_type) = "mp4" -> "h264"
    [] Lower(format_type) = "mov" -> "prores"
    [] Lower(format_type) = "mkv" -> "h265"
    [] Lower(format_type) = "webm" -> "vp9"
    [] Lower(format_type) = "avi" -> "h264"
    [] Lower(format_type) = "mxf" -> "dnxhd"
    [] Lower(format_type) = "mp3" -> "mp3"
    [] Lower(format_type) = "wav" -> "pcm_s16le"
    [] Lower(format_type) = "aac" -> "aac"
    [] Lower(format_type) = "flac" -> "flac"
    [] Lower(format_type) = "ogg" -> "vorbis"
    [] Lower(format_type) = "m4a" -> "aac"
    [] Lower(format_type) = "jpg" -> "mjpeg"
    [] Lower(format_type) = "png" -> "png"
    [] Lower(format_type) = "tiff" -> "tiff"
    [] Lower(format_type) = "webp" -> "webp"
    [] Lower(format_type) = "avif" -> "libaom-av1"
    [] OTHER -> "h264"

IsH264(codec) == codec \in {"h264", "libx264"}

\* the "parameters" mapping each preset branch assigns
PresetParameters(preset, codec, format_type) ==
  CASE preset = "web" ->
         << <<"video", D(<< <<"crf", I(IF IsH264(codec) THEN 23 ELSE 28)>>,
                            <<"preset", S("medium")>>,
                            <<"movflags", S("+faststart")>> >>)>>,
            <<"audio", D(<< <<"codec", S("aac")>>, <<"bitrate", S("128k")>> >>)>> >>
    [] preset = "social" ->
         << <<"video", D(<< <<"crf", I(IF IsH264(codec) THEN 20 ELSE 25)>>,
                            <<"preset", S("medium")>>,
                            <<"movflags", S("+faststart")>>,
                            <<"maxrate", S("4M")>>,
                            <<"bufsize", S("8M")>> >>)>>,
            <<"audio", D(<< <<"codec", S("aac")>>, <<"bitrate", S("192k")>> >>)>> >>
    [] preset = "broadcast" ->
         << <<"video", D(<< <<"profile", S(IF codec = "prores" THEN "3" ELSE "high")>>,
                            <<"level", IF IsH264(codec) THEN S("5.1") ELSE None>>,
                            <<"preset", IF codec \in {"h264", "libx264", "h265", "libx265"}
                                          THEN S("slow") ELSE None>>,
                            <<"pix_fmt", S(IF codec = "prores" THEN "yuv422p10le"
                                                               ELSE "yuv420p")>> >>)>>,
            <<"audio", D(<< <<"codec", S(IF format_type \in {"mov", "mxf"}
                                           THEN "pcm_s24le" ELSE "aac")>>,
                            <<"sample_rate", S("48000")>> >>)>> >>
    [] preset = "archive" ->
         << <<"video", D(<< <<"profile", S(IF codec = "prores" THEN "4444" ELSE "high")>>,
                            <<"pix_fmt", S(IF codec = "prores" THEN "yuv444p10le"
                                                               ELSE "yuv420p")>>,
                            <<"qscale", IF codec = "mjpeg" THEN S("1") ELSE None>> >>)>>,
            <<"audio", D(<< <<"codec", S("pcm_s24le")>>,
                            <<"sample_rate", S("48000")>> >>)>> >>
    [] preset = "mobile" ->
         << <<"video", D(<< <<"crf", I(IF IsH264(codec) THEN 26 ELSE 30)>>,
                            <<"preset", S("medium")>>,
                            <<"movflags", S("+faststart")>>,
                            <<"maxrate", S("2M")>>,
                            <<"bufsize", S("4M")>> >>)>>,
            <<"audio", D(<< <<"codec", S("aac")>>, <<"bitrate", S("96k")>> >>)>> >>
    [] OTHER ->
         << <<"video", D(<< <<"crf", I(IF IsH264(codec) THEN 23 ELSE 28)>>,
                            <<"preset", S("medium")>> >>)>>,
            <<"audio", D(<< <<"codec", S("aac")>>, <<"bitrate", S("192k")>> >>)>> >>

\* params["parameters"][key].update(value): raises unless value is a mapping
\* (or an empty sequence, which update() accepts and ignores)
SectionUpdate(section, value) ==
  IF IsDict(value) THEN Ok(D(DictUpdate(section[2], value[2])))
  ELSE IF IsList(value) /\ value[2] = <<>> THEN Ok(section)
  ELSE Raised("update")

\* the loop over target_format["parameters"].items()
RECURSIVE MergeOverrides(_, _)
MergeOverrides(parameters, items) ==
  IF items = <<>> THEN Ok(parameters)
  ELSE LET key == items[1][1]
           value == items[1][2]
       IN IF DictHas(parameters, key)
            THEN LET existing == DictGet(parameters, key, None)
                     merged == IF IsDict(existing) THEN SectionUpdate(existing, value)
                               ELSE Raised("update")
                 IN IF merged.ok
                      THEN MergeOverrides(DictPut(parameters, key, merged.val), Tail(items))
                      ELSE merged
            ELSE MergeOverrides(DictPut(parameters, key, value), Tail(items))

\* a format_params mapping: the four keys _prepare_format_parameters builds
FormatParams(format_type, codec, preset, parameters) ==
  [format |-> format_type, codec |-> codec, preset |-> preset, parameters |-> parameters]

_prepare_format_parameters(target_format, preset) ==
  LET format_type == Lower(DictGet(target_format, "format", S("mp4"))[2])
      given == DictGet(target_format, "codec", S(""))
      codec == IF Truthy(given) THEN given[2] ELSE _get_default_codec(format_type)
      base == PresetParameters(preset, codec, format_type)
      override == DictGet(target_format, "parameters", None)
      merged == IF DictHas(target_format, "parameters") /\ IsDict(override)
                  THEN MergeOverrides(base, override[2])
                  ELSE Ok(base)
  IN IF merged.ok THEN Ok(FormatParams(format_type, codec, preset, merged.val))
     ELSE merged

\* ------------------------------------------------------------------------
\* format_normalizer/ai_analyzer.py: the Recommender and its fallback table
\* ------------------------------------------------------------------------
_get_fallback_recommendations(target_format) ==
  LET format_type == Lower(target_format.format)
      codec == Lower(target_format.codec)
      Rec(cp, bs, opts) == << <<"codec_parameters", D(cp)>>,
                              <<"bitrate_strategy", D(bs)>>,
                              <<"ffmpeg_options", L(opts)>>,
                              <<"optimizations", D(<<>>)>> >>
      Strategy(t, v) == << <<"type", S(t)>>, <<"value", v>> >>
      default == Rec(<<>>, Strategy("VBR", S("medium")), <<>>)
  IN IF format_type \in {"mp4", "mov", "mkv"} THEN
       CASE codec = "h264" ->
              Rec(<< <<"preset", S("medium")>>, <<"profile", S("high")>> >>,
                  Strategy("CRF", I(23)), <<S("-movflags"), S("+faststart")>>)
         [] codec \in {"h265", "hevc"} ->
              Rec(<< <<"preset", S("medium")>>, <<"profile", S("main")>> >>,
                  Strategy("CRF", I(28)), <<>>)
         [] codec = "prores" ->
              Rec(<< <<"profile", S("standard")>> >>, Strategy("CBR", S("45000k")), <<>>)
         [] codec = "av1" ->
              Rec(<< <<"preset", S("medium")>>, <<"tile-columns", I(2)>>, <<"row-mt", I(1)>> >>,
                  Strategy("CRF", I(30)), <<>>)
         [] OTHER -> default
     ELSE IF format_type \in {"wav", "mp3", "aac", "flac"} THEN
       CASE codec = "aac" ->
              Rec(<< <<"profile", S("aac_low")>> >>, Strategy("CBR", S("192k")), <<>>)
         [] codec = "mp3" -> Rec(<<>>, Strategy("CBR", S("320k")), <<>>)
         [] codec = "flac" ->
              Rec(<< <<"compression_level", I(8)>> >>, Strategy("VBR", S("medium")), <<>>)
         [] OTHER -> default
     ELSE default

\* What the Recommender did: the call raised, or it returned text.  The text
\* is given by what _parse_recommendations makes of it: it raises
\* ("unparseable"), or json.loads returns a value.
CallFails == [kind |-> "call_fails", val |-> None]
Unparseable == [kind |-> "unparseable", val |-> None]
Parsed(v) == [kind |-> "parsed", val |-> v]

\* GeminiMediaAnalyzer.analyze_media_content: generate_content_async is
\* awaited outside the try block, only parsing is guarded
analyze_media_content(target_format, outcome) ==
  CASE outcome.kind = "call_fails" -> Raised("generate_content_async")
    [] outcome.kind = "unparseable" -> Ok(D(_get_fallback_recommendations(target_format)))
    [] OTHER -> Ok(outcome.val)

\* AIAnalysisModule.analyze_content: encoding_recommendations.get(...) needs
\* a mapping
analyze_content(target_format, outcome) ==
  LET rec == analyze_media_content(target_format, outcome)
  IN IF ~rec.ok THEN rec
     ELSE IF ~IsDict(rec.val) THEN Raised("get")
     ELSE Ok(<< <<"encoding_recommendations", rec.val>>,
                <<"optimizations", DictGet(rec.val[2], "optimizations", D(<<>>))>> >>)

\* the characters of the rate strings the model uses
Chars(s) ==
  CASE s = "45000k" -> <<"4", "5", "0", "0", "0", "k">>
    [] s = "192k" -> <<"1", "9", "2", "k">>
    [] s = "320k" -> <<"3", "2", "0", "k">>
    [] s = "2500k" -> <<"2", "5", "0", "0", "k">>
    [] s = "4M" -> <<"4", "M">>
    [] s = "medium" -> <<"m", "e", "d", "i", "u", "m">>
    [] OTHER -> <<"?">>

\* str.replace('k', '000')
RECURSIVE ReplaceK(_)
ReplaceK(cs) ==
  IF cs = <<>> THEN <<>>
  ELSE (IF cs[1] = "k" THEN <<"0", "0", "0">> ELSE <<cs[1]>>) \o ReplaceK(Tail(cs))

DigitValue(c) ==
  CASE c = "0" -> 0 [] c = "1" -> 1 [] c = "2" -> 2 [] c = "3" -> 3 [] c = "4" -> 4
    [] c = "5" -> 5 [] c = "6" -> 6 [] c = "7" -> 7 [] c = "8" -> 8 [] c = "9" -> 9
    [] OTHER -> -1

\* int(text): raises ValueError unless the text is a decimal numeral
RECURSIVE DigitsValue(_, _)
DigitsValue(cs, acc) ==
  IF cs = <<>> THEN acc ELSE DigitsValue(Tail(cs), acc * 10 + DigitValue(cs[1]))

ParseInt(cs) ==
  IF cs # <<>> /\ \A i \in 1..Len(cs) : DigitValue(cs[i]) >= 0
    THEN Ok(I(DigitsValue(cs, 0)))
    ELSE Raised("ValueError")

\* f"{int(strategy_value.replace('k', '000')) * 2}k"
CbrBufsize(strategy_value) ==
  IF ~IsStr(strategy_value) THEN Raised("AttributeError")
  ELSE LET n == ParseInt(ReplaceK(Chars(strategy_value[2])))
       IN IF n.ok THEN Ok(NumK(n.val[2] * 2)) ELSE n

\* the bitrate_strategy block
ApplyBitrateStrategy(video, strategy) ==
  LET strategy_type == DictGet(strategy, "type", None)
      strategy_value == DictGet(strategy, "value", None)
  IN IF ~(Truthy(strategy_type) /\ Truthy(strategy_value)) THEN Ok(video)
     ELSE CASE strategy_type = S("CRF") -> Ok(DictPut(video, "crf", strategy_value))
            [] strategy_type = S("CBR") ->
                 LET bufsize == CbrBufsize(strategy_value)
                 IN IF bufsize.ok
                      THEN Ok(DictPut(DictPut(DictPut(DictPut(video,
                                "bitrate", strategy_value),
                                "minrate", strategy_value),
                                "maxrate", strategy_value),
                                "bufsize", bufsize.val))
                      ELSE bufsize
            [] strategy_type = S("VBR") -> Ok(DictPut(video, "bitrate", strategy_value))
            [] OTHER -> Ok(video)

_apply_ai_recommendations(format_params, ai_analysis) ==
  LET rv == DictGet(ai_analysis, "encoding_recommendations", D(<<>>))
      recommendations == rv[2]
      parameters == format_params.parameters
      hasVideo == DictHas(parameters, "video")
      cp == DictGet(recommendations, "codec_parameters", None)
      bs == DictGet(recommendations, "bitrate_strategy", None)
      fo == DictGet(recommendations, "ffmpeg_options", None)
      video0 == DictGet(parameters, "video", None)
      \* format_params["parameters"]["video"][key] = value needs a mapping
      video1 == IF IsDict(cp) /\ hasVideo /\ cp[2] # <<>>
                  THEN (IF IsDict(video0) THEN Ok(D(DictUpdate(video0[2], cp[2])))
                        ELSE Raised("TypeError"))
                  ELSE Ok(video0)
      video2 == IF ~video1.ok THEN video1
                ELSE IF IsDict(bs) /\ hasVideo
                          /\ Truthy(DictGet(bs[2], "type", None))
                          /\ Truthy(DictGet(bs[2], "value", None))
                  THEN (IF IsDict(video1.val)
                          THEN LET r == ApplyBitrateStrategy(video1.val[2], bs[2])
                               IN IF r.ok THEN Ok(D(r.val)) ELSE r
                          ELSE Raised("TypeError"))
                  ELSE video1
      p1 == IF hasVideo /\ video2.ok THEN DictPut(parameters, "video", video2.val)
            ELSE parameters
      existing == DictGet(p1, "ffmpeg_options", L(<<>>))
      p2 == IF IsList(fo)
              THEN (IF IsList(existing)
                      THEN Ok(DictPut(p1, "ffmpeg_options", L(existing[2] \o fo[2])))
                      ELSE Raised("AttributeError"))
              ELSE Ok(p1)
  IN IF ~IsDict(rv) \/ ~Truthy(rv) THEN Ok(format_params)
     ELSE IF ~video2.ok THEN video2
     ELSE IF ~p2.ok THEN p2
     ELSE Ok([format_params EXCEPT !.parameters = p2.val])

\* ------------------------------------------------------------------------
\* Text: a message or a tool's diagnostic output is a sequence of pieces
\* ------------------------------------------------------------------------
\* part occurs in text, piece for piece
Contains(text, part) ==
  \E i \in 1..(Len(text) - Len(part) + 1) : SubSeq(text, i, i + Len(part) - 1) = part

\* stderr texts of the external tools
Diagnostics == { <<"input.mp4: No such file or directory", "\n">>,
                 <<"  ", "Conversion failed!", "\n">> }

\* ------------------------------------------------------------------------
\* State
\* ------------------------------------------------------------------------
\* resolution of one job's parameters (format_normalizer/normalizer.py)
VARIABLES r_pc, r_target_format, r_preset, r_enable_ai, r_outcome, r_params, r_ai,
          r_raised_in

resolveVars == <<r_pc, r_target_format, r_preset, r_enable_ai, r_outcome, r_params,
                 r_ai, r_raised_in>>

\* one job of the API service (format_normalizer/app.py) or of the cloud
\* function (functions/normalize_media/main.py), both of which run
\* format_normalizer/normalizer.py FormatNormalizer.normalize
VARIABLES j_host, j_cloud, j_in, j_pc, j_status, j_stored, j_dir, j_source_exists,
          j_source_metadata, j_params, j_ai, j_encoder_runs, j_output_exists,
          j_output_metadata, j_validation, j_result, j_error, j_failed_at

jobVars == <<j_host, j_cloud, j_in, j_pc, j_status, j_stored, j_dir, j_source_exists,
             j_source_metadata, j_params, j_ai, j_encoder_runs, j_output_exists,
             j_output_metadata, j_validation, j_result, j_error, j_failed_at>>

\* src/normalizer.py FormatNormalizer with one shared preset table, driven
\* by the tasks of src/api.py or by BatchProcessor.process
VARIABLES c_mode, c_key, c_presets, c_jobs, c_results

coreVars == <<c_mode, c_key, c_presets, c_jobs, c_results>>

\* formatnormalizer.py: BatchJob.start around FormatNormalizer.normalize
VARIABLES l_pc, l_media_sources, l_output_format, l_preset, l_next, l_status,
          l_results, l_calls

legacyVars == <<l_pc, l_media_sources, l_output_format, l_preset, l_next, l_status,
                l_results, l_calls>>

\* the stages of one call (resolve, build, validate) of each implementation,
\* applied to drawn inputs
VARIABLES s_impl, s_pc, s_target_format, s_preset, s_source, s_params, s_cmds,
          s_output, s_validation

stageVars == <<s_impl, s_pc, s_target_format, s_preset, s_source, s_params, s_cmds,
               s_output, s_validation>>

\* functions/batch_processor/main.py: the batch record in the document store
\* and the invocations of update_batch_status
VARIABLES b_uris, b_record, b_inv

batchVars == <<b_uris, b_record, b_inv>>

\* the job records of one service and the background task of each job:
\* functions/normalize_media/main.py, format_normalizer/app.py or src/api.py
VARIABLES v_service, v_jobs

serviceVars == <<v_service, v_jobs>>

vars == <<resolveVars, jobVars, coreVars, legacyVars, stageVars, batchVars, serviceVars>>

\* what the steps of one component leave alone
outsideResolve == <<jobVars, coreVars, legacyVars, stageVars, batchVars, serviceVars>>
outsideJob == <<resolveVars, coreVars, legacyVars, stageVars, batchVars, serviceVars>>
outsideCore == <<resolveVars, jobVars, legacyVars, stageVars, batchVars, serviceVars>>
outsideLegacy == <<resolveVars, jobVars, coreVars, stageVars, batchVars, serviceVars>>
outsideStages == <<resolveVars, jobVars, coreVars, legacyVars, batchVars, serviceVars>>
outsideBatch == <<resolveVars, jobVars, coreVars, legacyVars, stageVars, serviceVars>>
outsideService == <<resolveVars, jobVars, coreVars, legacyVars, stageVars, batchVars>>

\* the batch function and the job services at rest
BatchIdle ==
  /\ b_uris = 0
  /\ b_record = <<>>
  /\ b_inv = <<>>

ServiceIdle ==
  /\ v_service = "none"
  /\ v_jobs = <<>>

\* the src/normalizer.py service and the formatnormalizer.py batch at rest
CoreIdle ==
  /\ c_mode = "none"
  /\ c_key = FALSE
  /\ c_presets = <<"dict", <<>> >>
  /\ c_jobs = <<>>
  /\ c_results = <<>>

LegacyIdle ==
  /\ l_pc = "idle"
  /\ l_media_sources = <<>>
  /\ l_output_format = ""
  /\ l_preset = ""
  /\ l_next = 0
  /\ l_status = <<>>
  /\ l_results = <<>>
  /\ l_calls = <<>>

\* ------------------------------------------------------------------------
\* format_normalizer/normalizer.py: output validation
\*
\* Probed metadata is a record: format_name, size (bytes), duration (I(ms),
\* or S("N/A") when the Prober reports no number) and streams, a sequence of
\* records codec_type, codec_name, width, height in probe order.
\* ------------------------------------------------------------------------
Stream(codec_type, codec_name, width, height) ==
  [codec_type |-> codec_type, codec_name |-> codec_name, width |-> width, height |-> height]

Metadata(format_name, size, duration, streams) ==
  [format_name |-> format_name, size |-> size, duration |-> duration, streams |-> streams]

HasStream(metadata, codec_type) ==
  \E i \in 1..Len(metadata.streams) : metadata.streams[i].codec_type = codec_type

\* next((s for s in streams if s.get("codec_type") == codec_type), None)
FirstStream(metadata, codec_type) ==
  metadata.streams[CHOOSE i \in 1..Len(metadata.streams) :
                     /\ metadata.streams[i].codec_type = codec_type
                     /\ \A k \in 1..(i - 1) : metadata.streams[k].codec_type # codec_type]

\* the state of a validation run: the verdict so far and whether a check raised
Validation(passed, issues) == [passed |-> passed, issues |-> issues, raised |-> FALSE]

\* a check that flips the verdict and forgets to record why
FailSilently(v, issue) == [v EXCEPT !.passed = FALSE]

Fail(v, issue) == [v EXCEPT !.passed = FALSE, !.issues = Append(@, issue)]
Note(v, issue) == [v EXCEPT !.issues = Append(@, issue)]
Throw(v) == [v EXCEPT !.raised = TRUE]

CheckFormat(v, output_metadata, target_format) ==
  LET output_format == Lower(output_metadata.format_name)
      expected_format == Lower(target_format.format)
  IN IF expected_format # "" /\ output_format # expected_format
       THEN Fail(v, <<"format", expected_format, output_format>>)
       ELSE v

CheckVideoCodec(v, output_metadata, target_format) ==
  IF v.raised \/ ~HasStream(output_metadata, "video") THEN v
  ELSE LET output_codec == Lower(FirstStream(output_metadata, "video").codec_name)
           expected_codec == Lower(target_format.codec)
       IN IF expected_codec = "h264" /\ output_codec \notin {"h264", "libx264"}
            THEN Fail(v, <<"video_codec", "h264", output_codec>>)
          ELSE IF expected_codec = "h265" /\ output_codec \notin {"h265", "hevc", "libx265"}
            THEN Fail(v, <<"video_codec", "h265/hevc", output_codec>>)
          ELSE v

CheckAudioCodec(v, output_metadata, target_format) ==
  IF v.raised \/ ~HasStream(output_metadata, "audio")
       \/ ~DictHas(target_format.parameters, "audio") THEN v
  ELSE LET output_codec == Lower(FirstStream(output_metadata, "audio").codec_name)
           section == DictGet(target_format.parameters, "audio", None)
           expected == IF IsDict(section) THEN DictGet(section[2], "codec", S("")) ELSE None
       IN IF ~IsStr(expected) THEN Throw(v)
          ELSE IF expected[2] # "" /\ output_codec # Lower(expected[2])
                    /\ ~(Lower(expected[2]) = "aac" /\ output_codec \in {"aac", "aac_lc"})
            THEN Fail(v, <<"audio_codec", Lower(expected[2]), output_codec>>)
          ELSE v

\* a resolution check that also reports a reduction of exactly 10%
CheckResolutionFromTen(v, source_metadata, output_metadata) ==
  IF v.raised \/ ~HasStream(output_metadata, "video")
       \/ ~HasStream(source_metadata, "video") THEN v
  ELSE LET sv == FirstStream(source_metadata, "video")
           ov == FirstStream(output_metadata, "video")
       IN IF sv.width > 0 /\ sv.height > 0
               /\ 100 * (ov.width * ov.height) <= 90 * (sv.width * sv.height)
            THEN Note(v, <<"resolution", sv.width, sv.height, ov.width, ov.height>>)
            ELSE v

\* 100 - (output_pixels / source_pixels * 100) > 10
CheckResolution(v, source_metadata, output_metadata) ==
  IF v.raised \/ ~HasStream(output_metadata, "video")
       \/ ~HasStream(source_metadata, "video") THEN v
  ELSE LET sv == FirstStream(source_metadata, "video")
           ov == FirstStream(output_metadata, "video")
       IN IF sv.width > 0 /\ sv.height > 0
               /\ 100 * (ov.width * ov.height) < 90 * (sv.width * sv.height)
            THEN Note(v, <<"resolution", sv.width, sv.height, ov.width, ov.height>>)
            ELSE v

\* a size check that also reports an output of exactly 1% of the source
CheckSizeFromOnePercent(v, source_metadata, output_metadata) ==
  IF v.raised THEN v
  ELSE IF output_metadata.size <= 0 THEN Fail(v, <<"zero_size">>)
  ELSE IF source_metadata.size > 0 /\ 100 * output_metadata.size <= source_metadata.size
    THEN Note(v, <<"small", output_metadata.size>>)
  ELSE v

\* output_size < source_size * 0.01
CheckSize(v, source_metadata, output_metadata) ==
  IF v.raised THEN v
  ELSE IF output_metadata.size <= 0 THEN Fail(v, <<"zero_size">>)
  ELSE IF source_metadata.size > 0 /\ 100 * output_metadata.size < source_metadata.size
    THEN Note(v, <<"small", output_metadata.size>>)
  ELSE v

\* float(duration) raises on text that is no number
CheckDuration(v, source_metadata, output_metadata) ==
  IF v.raised THEN v
  ELSE IF source_metadata.duration[1] # "int" \/ output_metadata.duration[1] # "int"
    THEN Throw(v)
  ELSE LET sd == source_metadata.duration[2]
           od == output_metadata.duration[2]
           diff == IF od >= sd THEN od - sd ELSE sd - od
       IN IF sd > 0 /\ diff > 1000 /\ 100 * diff > sd
            THEN Note(v, <<"duration", sd, od>>)
            ELSE v

_validate_output(source_metadata, output_metadata, target_format) ==
  LET v0 == Validation(TRUE, <<>>)
      v1 == CheckFormat(v0, output_metadata, target_format)
      v2 == CheckVideoCodec(v1, output_metadata, target_format)
      v3 == CheckAudioCodec(v2, output_metadata, target_format)
      v4 == CheckResolution(v3, source_metadata, output_metadata)
      v5 == CheckSize(v4, source_metadata, output_metadata)
      v6 == CheckDuration(v5, source_metadata, output_metadata)
  IN IF v6.raised
       THEN [passed |-> FALSE, issues |-> Append(v6.issues, <<"error">>)]
       ELSE [passed |-> v6.passed, issues |-> v6.issues]

\* ------------------------------------------------------------------------
\* format_normalizer/normalizer.py: the Encoder command of _convert_media
\* ------------------------------------------------------------------------
Digit(d) ==
  CASE d = 0 -> "0" [] d = 1 -> "1" [] d = 2 -> "2" [] d = 3 -> "3" [] d = 4 -> "4"
    [] d = 5 -> "5" [] d = 6 -> "6" [] d = 7 -> "7" [] d = 8 -> "8" [] OTHER -> "9"

\* str(n) of a non-negative integer
RECURSIVE DecimalText(_)
DecimalText(n) == IF n < 10 THEN Digit(n) ELSE DecimalText(n \div 10) \o Digit(n % 10)

\* str(value)
Str(value) ==
  CASE value[1] = "int" -> DecimalText(value[2])
    [] value[1] = "numk" -> DecimalText(value[2]) \o "k"
    [] value[1] = "none" -> "None"
    [] OTHER -> value[2]

\* the encoder name after -c:v
VideoEncoder(codec) ==
  CASE codec = "h264" -> "libx264"
    [] codec \in {"h265", "hevc"} -> "libx265"
    [] codec = "prores" -> "prores_ks"
    [] codec = "av1" -> "libaom-av1"
    [] codec = "vp9" -> "libvpx-vp9"
    [] OTHER -> codec

\* one turn of the loop over video_params.items()
VideoOption(key, value, codec, format_type) ==
  IF value = None THEN <<>>
  ELSE CASE key = "crf" -> <<"-crf", Str(value)>>
         [] key = "preset" -> <<"-preset", Str(value)>>
         [] key = "profile" -> <<"-profile:v", Str(value)>>
         [] key = "level" /\ codec \in {"h264", "libx264", "h265", "libx265"} ->
              <<"-level", Str(value)>>
         [] key = "pix_fmt" -> <<"-pix_fmt", Str(value)>>
         [] key = "maxrate" -> <<"-maxrate", Str(value)>>
         [] key = "minrate" -> <<"-minrate", Str(value)>>
         [] key = "bufsize" -> <<"-bufsize", Str(value)>>
         [] key = "qscale" -> <<"-qscale:v", Str(value)>>
         [] key = "bitrate" -> <<"-b:v", Str(value)>>
         [] key = "movflags" /\ format_type \in {"mp4", "mov"} -> <<"-movflags", Str(value)>>
         [] OTHER -> <<>>

RECURSIVE VideoOptionsOf(_, _, _)
VideoOptionsOf(video_params, codec, format_type) ==
  IF video_params = <<>> THEN <<>>
  ELSE VideoOption(video_params[1][1], video_params[1][2], codec, format_type)
       \o VideoOptionsOf(Tail(video_params), codec, format_type)

\* one turn of the loop over audio_params.items()
AudioOption(key, value) ==
  IF value = None \/ key = "codec" THEN <<>>
  ELSE CASE key = "bitrate" -> <<"-b:a", Str(value)>>
         [] key = "sample_rate" -> <<"-ar", Str(value)>>
         [] key = "channels" -> <<"-ac", Str(value)>>
         [] OTHER -> <<>>

RECURSIVE AudioOptionsOf(_)
AudioOptionsOf(audio_params) ==
  IF audio_params = <<>> THEN <<>>
  ELSE AudioOption(audio_params[1][1], audio_params[1][2]) \o AudioOptionsOf(Tail(audio_params))

\* for option in format_params["parameters"]["ffmpeg_options"]: str(option)
CustomOptions(parameters) ==
  IF DictHas(parameters, "ffmpeg_options")
    THEN LET options == DictGet(parameters, "ffmpeg_options", L(<<>>))[2]
         IN [i \in 1..Len(options) |-> Str(options[i])]
    ELSE <<>>

\* the argument list _convert_media hands to the Encoder (lines 344-425)
ffmpeg_cmd(source_path, output_path, format_params, source_metadata) ==
  LET parameters == format_params.parameters
      has_video == HasStream(source_metadata, "video")
      has_audio == HasStream(source_metadata, "audio")
      video_params == DictGet(parameters, "video", D(<<>>))[2]
      audio_params == DictGet(parameters, "audio", D(<<>>))[2]
  IN <<"ffmpeg", "-y", "-i", source_path>>
     \o (IF has_video /\ DictHas(parameters, "video")
           THEN <<"-c:v", VideoEncoder(format_params.codec)>>
                \o VideoOptionsOf(video_params, format_params.codec, format_params.format)
           ELSE <<>>)
     \o (IF has_audio /\ DictHas(parameters, "audio")
           THEN (IF DictHas(audio_params, "codec")
                   THEN <<"-c:a", Str(DictGet(audio_params, "codec", None))>>
                   ELSE <<>>)
                \o AudioOptionsOf(audio_params)
           ELSE <<>>)
     \o CustomOptions(parameters)
     \o (IF format_params.format # "" THEN <<"-f", format_params.format>> ELSE <<>>)
     \o <<output_path>>
\* ------------------------------------------------------------------------
\* Resolution of one job's parameters: steps 2 and 3 of
\* format_normalizer/normalizer.py FormatNormalizer.normalize
\* ------------------------------------------------------------------------
Absent == <<"absent">>

FormatInputs == {Absent, S("mp4"), S("MP4"), S("mov"), S("mkv"), S("mp3")}
CodecInputs == {Absent, S("h264"), S("libx264"), S("hevc"), S("prores"), S("av1")}
OverrideInputs ==
  { Absent,
    D(<< <<"video", D(<< <<"crf", I(18)>> >>)>> >>),
    D(<< <<"video", D(<< <<"crf", I(18)>>, <<"bitrate", S("2500k")>> >>)>>,
         <<"audio", D(<< <<"bitrate", S("192k")>> >>)>> >>),
    D(<< <<"ffmpeg_options", L(<<S("-threads"), S("2")>>)>> >>),
    D(<< <<"video", D(<< <<"preset", None>> >>)>> >>),
    D(<< <<"video", S("copy")>> >>) }
PresetInputs == {"web", "social", "broadcast", "archive", "mobile", "standard", "cinema"}

\* a request's target_format mapping: only the keys the caller gave
TargetFormat(f, c, o) ==
  (IF f = Absent THEN <<>> ELSE << <<"format", f>> >>)
  \o (IF c = Absent THEN <<>> ELSE << <<"codec", c>> >>)
  \o (IF o = Absent THEN <<>> ELSE << <<"parameters", o>> >>)

StrategyPayload(t, v) ==
  D(<< <<"bitrate_strategy", D(<< <<"type", S(t)>>, <<"value", v>> >>)>> >>)

RecommenderOutcomes ==
  { CallFails, Unparseable,
    Parsed(StrategyPayload("CRF", I(22))),
    Parsed(StrategyPayload("CRF", I(0))),
    Parsed(D(<< <<"codec_parameters", D(<< <<"preset", S("slow")>>, <<"crf", I(21)>> >>)>>,
                <<"bitrate_strategy", D(<< <<"type", S("VBR")>>,
                                           <<"value", S("2500k")>> >>)>> >>)),
    Parsed(StrategyPayload("CBR", S("2500k"))),
    Parsed(StrategyPayload("CBR", I(5000))),
    Parsed(StrategyPayload("CBR", S("4M"))),
    Parsed(D(<< <<"bitrate_strategy", D(<< <<"type", S("ABR")>>,
                                           <<"value", S("2500k")>> >>)>>,
                <<"ffmpeg_options", L(<<S("-tune"), S("film")>>)>> >>)),
    Parsed(D(<< <<"codec_parameters", S("fast")>>, <<"bitrate_strategy", S("CRF")>> >>)),
    Parsed(D(<<>>)),
    Parsed(L(<<>>)) }

NoParams == FormatParams("", "", "", <<>>)
NoOutcome == [kind |-> "none", val |-> None]

\* the resolution machine at rest, for runs that are about another component
ResolveIdle ==
  /\ r_pc = "idle"
  /\ r_target_format = <<>>
  /\ r_preset = "standard"
  /\ r_enable_ai = FALSE
  /\ r_outcome = NoOutcome
  /\ r_params = NoParams
  /\ r_ai = <<>>
  /\ r_raised_in = "none"

\* the stages at rest, for runs that are about another component
StagesIdle ==
  /\ s_impl = "none"
  /\ s_pc = "idle"
  /\ s_target_format = <<>>
  /\ s_preset = "standard"
  /\ s_source = Metadata("", 0, I(0), <<>>)
  /\ s_params = NoParams
  /\ s_cmds = <<>>
  /\ s_output = <<>>
  /\ s_validation = <<>>

\* ------------------------------------------------------------------------
\* One job: the background task of format_normalizer/app.py
\* (process_normalization_job) or of functions/normalize_media/main.py
\* (process_normalization), around FormatNormalizer.normalize
\* ------------------------------------------------------------------------
jobConfig == <<j_host, j_cloud, j_in>>

SourceMetadatas ==
  { Metadata("mov,mp4,m4a,3gp,3g2,mj2", 100000, I(60000),
             <<Stream("video", "h264", 1920, 1080), Stream("audio", "aac", 0, 0)>>),
    Metadata("mp3", 4000, S("N/A"), <<Stream("audio", "mp3", 0, 0)>>) }

OutputMetadatas ==
  { Metadata("mp4", 50000, I(60000),
             <<Stream("video", "h264", 1920, 1080), Stream("audio", "aac", 0, 0)>>),
    Metadata("mov,mp4,m4a,3gp,3g2,mj2", 50000, I(60000),
             <<Stream("video", "h264", 1920, 1080), Stream("audio", "aac", 0, 0)>>),
    Metadata("mp4", 0, I(30000),
             <<Stream("video", "hevc", 1280, 720), Stream("audio", "mp3", 0, 0)>>),
    Metadata("matroska,webm", 500, I(60000),
             <<Stream("audio", "aac_lc", 0, 0), Stream("video", "hevc", 1920, 1080)>>) }

JobTargetFormats ==
  { TargetFormat(S("mp4"), Absent, Absent),
    TargetFormat(S("mp4"), S("h264"), D(<< <<"video", D(<< <<"crf", I(18)>> >>)>> >>)),
    TargetFormat(S("mkv"), S("hevc"), D(<< <<"audio", D(<< <<"codec", S("mp3")>> >>)>> >>)) }

JobRecommenderOutcomes ==
  { CallFails, Unparseable,
    Parsed(StrategyPayload("CRF", I(22))),
    Parsed(StrategyPayload("CBR", I(5000))) }

JobInput(target_format, preset, enable_ai, validate_output) ==
  [target_format |-> target_format, preset |-> preset, enable_ai |-> enable_ai,
   validate_output |-> validate_output]

NoMetadata == Metadata("", 0, I(0), <<>>)
NoStored == [result |-> <<>>, error |-> <<>>]

\* the result mapping normalize returns; validation and ai_analysis are
\* present only when the run produced them
JobResult(source_metadata, output_metadata, validation, ai_analysis) ==
  [format |-> output_metadata.format_name,
   original |-> source_metadata,
   technical |-> output_metadata,
   validation |-> validation,
   ai_analysis |-> ai_analysis]

JobIdle ==
  /\ j_host = "none"
  /\ j_cloud = FALSE
  /\ j_in = JobInput(<<>>, "standard", FALSE, FALSE)
  /\ j_pc = "idle"
  /\ j_status = "none"
  /\ j_stored = NoStored
  /\ j_dir = "none"
  /\ j_source_exists = FALSE
  /\ j_source_metadata = NoMetadata
  /\ j_params = NoParams
  /\ j_ai = <<>>
  /\ j_encoder_runs = 0
  /\ j_output_exists = FALSE
  /\ j_output_metadata = NoMetadata
  /\ j_validation = <<>>
  /\ j_result = <<>>
  /\ j_error = <<>>
  /\ j_failed_at = "none"

\* The request handler has created the job record with status pending; the
\* API service has also created the job directory.
JobInit ==
  /\ j_host \in {"app", "function"}
  /\ j_cloud \in (IF j_host = "app" THEN BOOLEAN ELSE {TRUE})
  /\ j_in \in { JobInput(t, p, a, v) : t \in JobTargetFormats, p \in {"web", "broadcast"},
                                      a \in BOOLEAN, v \in BOOLEAN }
  /\ j_pc = "start"
  /\ j_status = "pending"
  /\ j_stored = NoStored
  /\ j_dir = IF j_host = "app" THEN "exists" ELSE "none"
  /\ j_source_exists = FALSE
  /\ j_source_metadata = NoMetadata
  /\ j_params = NoParams
  /\ j_ai = <<>>
  /\ j_encoder_runs = 0
  /\ j_output_exists = FALSE
  /\ j_output_metadata = NoMetadata
  /\ j_validation = <<>>
  /\ j_result = <<>>
  /\ j_error = <<>>
  /\ j_failed_at = "none"
  /\ ResolveIdle /\ CoreIdle /\ LegacyIdle /\ StagesIdle /\ BatchIdle /\ ServiceIdle

\* an exception inside the task's try block: control goes to its handler
JobRaise(at, text) ==
  /\ j_pc' = "except"
  /\ j_error' = text
  /\ j_failed_at' = at

JobGoto(pc) ==
  /\ j_pc' = pc
  /\ UNCHANGED <<j_error, j_failed_at>>

\* status -> processing.  FirestoreManager.update_job swallows a store error
\* and returns False; job_ref.update of the cloud function raises.
JobStart ==
  /\ j_pc = "start"
  /\ \E ok \in BOOLEAN :
       IF j_host = "app"
         THEN /\ j_status' = IF j_cloud /\ ok THEN "processing" ELSE j_status
              /\ JobGoto("stage")
         ELSE IF ok
           THEN /\ j_status' = "processing"
                /\ JobGoto("stage")
           ELSE /\ JobRaise("start", <<"job store update failed">>)
                /\ UNCHANGED j_status
  /\ UNCHANGED <<jobConfig, j_stored, j_dir, j_source_exists, j_source_metadata, j_params,
                 j_ai, j_encoder_runs, j_output_exists, j_output_metadata, j_validation,
                 j_result, outsideJob>>

\* the source is saved or downloaded into the job's directory; the cloud
\* function creates the directory first and constructs the normalizer after
JobStage ==
  /\ j_pc = "stage"
  /\ j_dir' = IF j_host = "function" THEN "exists" ELSE j_dir
  /\ \E staged \in {"ok", "missing", "raise"} :
       /\ staged = "missing" => j_host = "app"
       /\ IF staged = "raise"
            THEN /\ JobRaise("stage", <<"staging the source failed">>)
                 /\ UNCHANGED j_source_exists
            ELSE /\ j_source_exists' = (staged = "ok")
                 /\ JobGoto("probe")
  /\ UNCHANGED <<jobConfig, j_status, j_stored, j_source_metadata, j_params,
                 j_ai, j_encoder_runs, j_output_exists, j_output_metadata, j_validation,
                 j_result, outsideJob>>

\* _analyze_media: the three ways the probe of a path fails, as exception texts
ProbeMissing == <<"Media file not found: ", "path">>
ProbeNonZero(diag) ==
  <<"Media analysis failed: ", "FFprobe failed with return code ", "1", ": ">> \o diag
ProbeMalformed == <<"Invalid FFprobe output: ", "Expecting value">>

\* 1. source_metadata = await self._analyze_media(source_path)
JobProbe ==
  /\ j_pc = "probe"
  /\ IF ~j_source_exists
       THEN /\ JobRaise("probe", ProbeMissing)
            /\ UNCHANGED j_source_metadata
       ELSE \/ \E m \in SourceMetadatas :
                 /\ j_source_metadata' = m
                 /\ JobGoto("prepare")
            \/ \E d \in Diagnostics :
                 /\ JobRaise("probe", ProbeNonZero(d))
                 /\ UNCHANGED j_source_metadata
            \/ /\ JobRaise("probe", ProbeMalformed)
               /\ UNCHANGED j_source_metadata
  /\ UNCHANGED <<jobConfig, j_status, j_stored, j_dir, j_source_exists, j_params,
                 j_ai, j_encoder_runs, j_output_exists, j_output_metadata, j_validation,
                 j_result, outsideJob>>

\* 2. format_params = self._prepare_format_parameters(target_format, preset)
JobPrepare ==
  /\ j_pc = "prepare"
  /\ LET r == _prepare_format_parameters(j_in.target_format, j_in.preset)
     IN IF r.ok
          THEN /\ j_params' = r.val
               /\ JobGoto(IF j_in.enable_ai THEN "analyze" ELSE "convert")
          ELSE /\ JobRaise("prepare", <<"prepare failed">>)
               /\ UNCHANGED j_params
  /\ UNCHANGED <<jobConfig, j_status, j_stored, j_dir, j_source_exists, j_source_metadata,
                 j_ai, j_encoder_runs, j_output_exists, j_output_metadata, j_validation,
                 j_result, outsideJob>>

\* 3. ai_analysis = await self.ai_analyzer.analyze_content(...)
JobAnalyze ==
  /\ j_pc = "analyze"
  /\ \E outcome \in JobRecommenderOutcomes :
       LET r == analyze_content(j_params, outcome)
       IN IF r.ok
            THEN /\ j_ai' = r.val
                 /\ JobGoto("apply")
            ELSE /\ JobRaise("analyze", <<"recommender failed">>)
                 /\ UNCHANGED j_ai
  /\ UNCHANGED <<jobConfig, j_status, j_stored, j_dir, j_source_exists, j_source_metadata,
                 j_params, j_encoder_runs, j_output_exists, j_output_metadata, j_validation,
                 j_result, outsideJob>>

\* format_params = self._apply_ai_recommendations(format_params, ai_analysis)
JobApply ==
  /\ j_pc = "apply"
  /\ LET r == _apply_ai_recommendations(j_params, j_ai)
     IN IF r.ok
          THEN /\ j_params' = r.val
               /\ JobGoto("convert")
          ELSE /\ JobRaise("apply", <<"applying the recommendation failed">>)
               /\ UNCHANGED j_params
  /\ UNCHANGED <<jobConfig, j_status, j_stored, j_dir, j_source_exists, j_source_metadata,
                 j_ai, j_encoder_runs, j_output_exists, j_output_metadata, j_validation,
                 j_result, outsideJob>>

\* _convert_media: the exception text of a non-zero Encoder exit
ConvertNonZero(diag) ==
  <<"Media conversion failed: ", "FFmpeg failed with return code ", "1", ": ">> \o diag

\* 4. conversion_result = await self._convert_media(...): the command is
\* built from format_params and the source metadata, the Encoder runs and
\* exits zero, with or without an output file, or non-zero
JobConvert ==
  /\ j_pc = "convert"
  /\ j_encoder_runs' = j_encoder_runs + 1
  /\ \/ \E exists \in BOOLEAN :
          /\ j_output_exists' = exists
          /\ JobGoto("probe_output")
     \/ \E d \in Diagnostics :
          /\ JobRaise("convert", ConvertNonZero(d))
          /\ UNCHANGED j_output_exists
  /\ UNCHANGED <<jobConfig, j_status, j_stored, j_dir, j_source_exists, j_source_metadata,
                 j_params, j_ai, j_output_metadata, j_validation, j_result, outsideJob>>

OutputMissing == <<"Conversion failed: Output file not found at ", "path">>

\* 5. the output must exist; it is probed
JobProbeOutput ==
  /\ j_pc = "probe_output"
  /\ IF ~j_output_exists
       THEN /\ JobRaise("probe_output", OutputMissing)
            /\ UNCHANGED j_output_metadata
       ELSE \/ \E m \in OutputMetadatas :
                 /\ j_output_metadata' = m
                 /\ JobGoto("finish")
            \/ \E d \in Diagnostics :
                 /\ JobRaise("probe_output", ProbeNonZero(d))
                 /\ UNCHANGED j_output_metadata
            \/ /\ JobRaise("probe_output", ProbeMalformed)
               /\ UNCHANGED j_output_metadata
  /\ UNCHANGED <<jobConfig, j_status, j_stored, j_dir, j_source_exists, j_source_metadata,
                 j_params, j_ai, j_encoder_runs, j_output_exists, j_validation, j_result,
                 outsideJob>>

\* 6. validation if requested, then the result mapping is assembled and
\* returned to the task
JobFinish ==
  /\ j_pc = "finish"
  /\ LET validation == IF j_in.validate_output
                         THEN <<_validate_output(j_source_metadata, j_output_metadata,
                                                 j_params)>>
                         ELSE <<>>
         ai_analysis == IF j_in.enable_ai THEN <<j_ai>> ELSE <<>>
     IN /\ j_validation' = validation
        /\ j_result' = <<JobResult(j_source_metadata, j_output_metadata, validation,
                                   ai_analysis)>>
  /\ JobGoto("upload")
  /\ UNCHANGED <<jobConfig, j_status, j_stored, j_dir, j_source_exists, j_source_metadata,
                 j_params, j_ai, j_encoder_runs, j_output_exists, j_output_metadata,
                 outsideJob>>

\* the output is uploaded to the object store (the API service: only when a
\* store is configured and the file exists)
JobUpload ==
  /\ j_pc = "upload"
  /\ IF j_host = "app" /\ ~(j_cloud /\ j_output_exists)
       THEN JobGoto("record")
       ELSE \/ JobGoto("record")
            \/ JobRaise("upload", <<"upload failed">>)
  /\ UNCHANGED <<jobConfig, j_status, j_stored, j_dir, j_source_exists, j_source_metadata,
                 j_params, j_ai, j_encoder_runs, j_output_exists, j_output_metadata,
                 j_validation, j_result, outsideJob>>

\* status -> completed, with the result
JobRecord ==
  /\ j_pc = "record"
  /\ \E ok \in BOOLEAN :
       IF j_host = "app"
         THEN /\ IF j_cloud /\ ok
                   THEN /\ j_status' = "completed"
                        /\ j_stored' = [j_stored EXCEPT !.result = j_result]
                   ELSE UNCHANGED <<j_status, j_stored>>
              /\ JobGoto("cleanup")
         ELSE IF ok
           THEN /\ j_status' = "completed"
                /\ j_stored' = [j_stored EXCEPT !.result = j_result]
                /\ JobGoto("cleanup")
           ELSE /\ JobRaise("record", <<"job store update failed">>)
                /\ UNCHANGED <<j_status, j_stored>>
  /\ UNCHANGED <<jobConfig, j_dir, j_source_exists, j_source_metadata,
                 j_params, j_ai, j_encoder_runs, j_output_exists, j_output_metadata,
                 j_validation, j_result, outsideJob>>

\* shutil.rmtree of the job's directory, still inside the try block
JobCleanup ==
  /\ j_pc = "cleanup"
  /\ IF j_dir # "exists"
       THEN /\ JobGoto("done")
            /\ UNCHANGED j_dir
       ELSE \/ /\ j_dir' = "deleted"
               /\ JobGoto("done")
            \/ /\ JobRaise("cleanup", <<"rmtree failed">>)
               /\ UNCHANGED j_dir
  /\ UNCHANGED <<jobConfig, j_status, j_stored, j_source_exists, j_source_metadata,
                 j_params, j_ai, j_encoder_runs, j_output_exists, j_output_metadata,
                 j_validation, j_result, outsideJob>>

\* except Exception: status -> failed with str(e).  The API service goes on
\* to delete the directory; the cloud function returns.
JobExcept ==
  /\ j_pc = "except"
  /\ \E ok \in BOOLEAN :
       IF j_host = "app"
         THEN /\ IF j_cloud /\ ok
                   THEN /\ j_status' = "failed"
                        /\ j_stored' = [j_stored EXCEPT !.error = j_error]
                   ELSE UNCHANGED <<j_status, j_stored>>
              /\ j_pc' = "except_cleanup"
         ELSE IF ok
           THEN /\ j_status' = "failed"
                /\ j_stored' = [j_stored EXCEPT !.error = j_error]
                /\ j_pc' = "done"
           ELSE /\ j_pc' = "crashed"
                /\ UNCHANGED <<j_status, j_stored>>
  /\ UNCHANGED <<jobConfig, j_dir, j_source_exists, j_source_metadata,
                 j_params, j_ai, j_encoder_runs, j_output_exists, j_output_metadata,
                 j_validation, j_result, j_error, j_failed_at, outsideJob>>

\* the handler's own rmtree (API service); an exception here leaves the task
JobExceptCleanup ==
  /\ j_pc = "except_cleanup"
  /\ IF j_dir # "exists"
       THEN /\ j_pc' = "done"
            /\ UNCHANGED j_dir
       ELSE \/ /\ j_dir' = "deleted"
               /\ j_pc' = "done"
            \/ /\ j_pc' = "crashed"
               /\ UNCHANGED j_dir
  /\ UNCHANGED <<jobConfig, j_status, j_stored, j_source_exists, j_source_metadata,
                 j_params, j_ai, j_encoder_runs, j_output_exists, j_output_metadata,
                 j_validation, j_result, j_error, j_failed_at, outsideJob>>

JobNext ==
  \/ JobStart \/ JobStage \/ JobProbe \/ JobPrepare \/ JobAnalyze \/ JobApply
  \/ JobConvert \/ JobProbeOutput \/ JobFinish \/ JobUpload \/ JobRecord
  \/ JobCleanup \/ JobExcept \/ JobExceptCleanup

\* ------------------------------------------------------------------------
\* Resolution of one job's parameters, step by step
\* ------------------------------------------------------------------------
ResolveInit ==
  /\ r_pc = "prepare"
  /\ r_target_format \in { TargetFormat(f, c, o) :
                             f \in FormatInputs, c \in CodecInputs, o \in OverrideInputs }
  /\ r_preset \in PresetInputs
  /\ r_enable_ai \in BOOLEAN
  /\ r_outcome = NoOutcome
  /\ r_params = NoParams
  /\ r_ai = <<>>
  /\ r_raised_in = "none"
  /\ JobIdle /\ CoreIdle /\ LegacyIdle /\ StagesIdle /\ BatchIdle /\ ServiceIdle

\* format_params = self._prepare_format_parameters(target_format, preset)
Prepare ==
  /\ r_pc = "prepare"
  /\ LET r == _prepare_format_parameters(r_target_format, r_preset)
     IN IF r.ok
          THEN /\ r_params' = r.val
               /\ r_pc' = IF r_enable_ai THEN "analyze" ELSE "convert"
               /\ UNCHANGED r_raised_in
          ELSE /\ r_pc' = "raised"
               /\ r_raised_in' = "prepare"
               /\ UNCHANGED r_params
  /\ UNCHANGED <<r_target_format, r_preset, r_enable_ai, r_outcome, r_ai, outsideResolve>>

\* ai_analysis = await self.ai_analyzer.analyze_content(...)
Analyze ==
  /\ r_pc = "analyze"
  /\ \E outcome \in RecommenderOutcomes :
       /\ r_outcome' = outcome
       /\ LET r == analyze_content(r_params, outcome)
          IN IF r.ok
               THEN /\ r_ai' = r.val
                    /\ r_pc' = "apply"
                    /\ UNCHANGED r_raised_in
               ELSE /\ r_pc' = "raised"
                    /\ r_raised_in' = "analyze"
                    /\ UNCHANGED r_ai
  /\ UNCHANGED <<r_target_format, r_preset, r_enable_ai, r_params, outsideResolve>>

\* format_params = self._apply_ai_recommendations(format_params, ai_analysis)
Apply ==
  /\ r_pc = "apply"
  /\ LET r == _apply_ai_recommendations(r_params, r_ai)
     IN IF r.ok
          THEN /\ r_params' = r.val
               /\ r_pc' = "convert"
               /\ UNCHANGED r_raised_in
          ELSE /\ r_pc' = "raised"
               /\ r_raised_in' = "apply"
               /\ UNCHANGED r_params
  /\ UNCHANGED <<r_target_format, r_preset, r_enable_ai, r_outcome, r_ai, outsideResolve>>

ResolveNext == Prepare \/ Analyze \/ Apply

\* ------------------------------------------------------------------------
\* src/normalizer.py: FormatNormalizer (one instance, shared by every job of
\* the API service and of a batch)
\*
\* Media information is a record: error (<<>> or <<text>>, the {"error": ...}
\* mapping), format, duration (ms), size, streams (records type, codec,
\* width, height) and video_codec (<<>> or <<name>>).
\* ------------------------------------------------------------------------
InitialPresets ==
  D(<< <<"web", D(<< <<"video", D(<< <<"codec", S("h264")>>, <<"crf", I(23)>>,
                                     <<"preset", S("medium")>> >>)>>,
                     <<"audio", D(<< <<"codec", S("aac")>>, <<"bitrate", S("128k")>> >>)>> >>)>>,
       <<"social", D(<< <<"video", D(<< <<"codec", S("h264")>>, <<"crf", I(20)>>,
                                        <<"preset", S("faster")>> >>)>>,
                        <<"audio", D(<< <<"codec", S("aac")>>, <<"bitrate", S("192k")>> >>)>> >>)>>,
       <<"broadcast", D(<< <<"video", D(<< <<"codec", S("prores")>>,
                                           <<"profile", S("standard")>> >>)>>,
                           <<"audio", D(<< <<"codec", S("pcm_s24le")>> >>)>> >>)>>,
       <<"hq", D(<< <<"video", D(<< <<"codec", S("h264")>>, <<"crf", I(18)>>,
                                    <<"preset", S("slow")>> >>)>>,
                    <<"audio", D(<< <<"codec", S("aac")>>, <<"bitrate", S("256k")>> >>)>> >>)>>,
       <<"archive", D(<< <<"video", D(<< <<"codec", S("ffv1")>>, <<"level", I(3)>> >>)>>,
                         <<"audio", D(<< <<"codec", S("flac")>> >>)>> >>)>> >>)

CoreStream(type, codec, width, height) ==
  [type |-> type, codec |-> codec, width |-> width, height |-> height]

FirstCodec(streams, type) ==
  IF \E i \in 1..Len(streams) : streams[i].type = type
    THEN <<streams[CHOOSE i \in 1..Len(streams) :
                     /\ streams[i].type = type
                     /\ \A k \in 1..(i - 1) : streams[k].type # type].codec>>
    ELSE <<>>

\* info["video_codec"] is assigned for every video stream: the last one stays
LastVideoCodec(streams) ==
  IF \E i \in 1..Len(streams) : streams[i].type = "video"
    THEN <<streams[CHOOSE i \in 1..Len(streams) :
                     /\ streams[i].type = "video"
                     /\ \A k \in (i + 1)..Len(streams) : streams[k].type # "video"].codec>>
    ELSE <<>>

CoreInfo(format, duration, size, streams) ==
  [error |-> <<>>, format |-> format, duration |-> duration, size |-> size,
   streams |-> streams, video_codec |-> LastVideoCodec(streams)]

CoreInfoError(text) ==
  [error |-> <<text>>, format |-> "", duration |-> 0, size |-> 0, streams |-> <<>>,
   video_codec |-> <<>>]

\* str(e) of the exceptions _get_media_info catches
ProbeExitText == <<"Command '['ffprobe', ...]' returned non-zero exit status 1.">>
ProbeJsonText == <<"Expecting value: line 1 column 1 (char 0)">>

\* what the Prober finds at a source path
SourceKinds == {"ok", "missing", "corrupt", "malformed"}

SourceInfo ==
  CoreInfo("mov,mp4,m4a,3gp,3g2,mj2", 60000, 100000,
           <<CoreStream("video", "h264", 1920, 1080), CoreStream("audio", "aac", 0, 0)>>)

_get_media_info(kind) ==
  CASE kind = "ok" -> SourceInfo
    [] kind = "malformed" -> CoreInfoError(ProbeJsonText)
    [] OTHER -> CoreInfoError(ProbeExitText)

\* _analyze_media_with_gemini: {} without an API key, else the placeholder
\* recommendation computed from a second probe of the source
_analyze_media_with_gemini(key, kind) ==
  IF ~key
    THEN <<>>
    ELSE LET media_info == _get_media_info(kind)
         IN << <<"recommended_codec",
                 S(IF media_info.video_codec # <<>> THEN media_info.video_codec[1]
                                                    ELSE "h264")>>,
               <<"quality_optimized_crf", I(22)>>,
               <<"encoding_speed", S("medium")>> >>

\* a request: target_format, codec and preset are <<>> (None) or <<value>>
CoreRequest(target_format, codec, preset, enable_ai, validate_output) ==
  [target_format |-> target_format, codec |-> codec, preset |-> preset,
   enable_ai |-> enable_ai, validate_output |-> validate_output]

\* encoding_params = self.presets[preset]: the preset's own entry, not a copy
Aliases(presets, request) ==
  request.preset # <<>> /\ DictHas(presets[2], request.preset[1])

EncodingParams(presets, request) ==
  IF Aliases(presets, request) THEN DictGet(presets[2], request.preset[1], D(<<>>))[2]
                               ELSE <<>>

\* for stream_type in encoding_params: ...["codec"] = codec
OverrideCodec(params, codec) ==
  [i \in 1..Len(params) |->
     <<params[i][1],
       IF DictHas(params[i][2][2], "codec")
         THEN D(DictPut(params[i][2][2], "codec", S(codec)))
         ELSE params[i][2]>>]

\* the recommendation written into encoding_params["video"]
ApplyRecommendation(params, ai) ==
  IF ai # <<>> /\ DictHas(ai, "recommended_codec") /\ DictHas(params, "video")
    THEN LET video == DictGet(params, "video", D(<<>>))[2]
             withCodec == DictPut(video, "codec", DictGet(ai, "recommended_codec", None))
             withCrf == IF DictHas(ai, "quality_optimized_crf")
                          THEN DictPut(withCodec, "crf",
                                       DictGet(ai, "quality_optimized_crf", None))
                          ELSE withCodec
         IN DictPut(params, "video", D(withCrf))
    ELSE params

\* lines 275-291: the parameters of the job after the codec override and the
\* recommendation
ResolvedParams(presets, request, ai) ==
  LET params == EncodingParams(presets, request)
      overridden == IF request.codec # <<>> /\ request.codec[1] # ""
                      THEN OverrideCodec(params, request.codec[1])
                      ELSE params
  IN ApplyRecommendation(overridden, ai)

\* the preset table after lines 275-291: the writes go through the alias
PresetsAfter(presets, request, ai) ==
  IF Aliases(presets, request)
    THEN D(DictPut(presets[2], request.preset[1], D(ResolvedParams(presets, request, ai))))
    ELSE presets
\* str(n) of the integers the presets and the recommendation hold
Decimal(n) ==
  CASE n = 3 -> "3" [] n = 18 -> "18" [] n = 20 -> "20" [] n = 22 -> "22"
    [] n = 23 -> "23" [] n = 24 -> "24" [] n = 30 -> "30"
    [] OTHER -> "0"

StrOf(v) == IF v[1] = "int" THEN Decimal(v[2]) ELSE v[2]

ProfileMap(profile) ==
  CASE profile = "proxy" -> "0" [] profile = "lt" -> "1" [] profile = "standard" -> "2"
    [] profile = "hq" -> "3" [] profile = "4444" -> "4" [] profile = "4444xq" -> "5"
    [] OTHER -> "2"

VideoOptions(video_params) ==
  LET video_codec == DictGet(video_params, "codec", None)
      name == IF Truthy(video_codec) THEN video_codec[2] ELSE ""
  IN (IF Truthy(video_codec) THEN <<"-c:v", name>> ELSE <<>>)
     \o (CASE name \in {"h264", "h265"} ->
                <<"-crf", StrOf(DictGet(video_params, "crf", I(23))),
                  "-preset", StrOf(DictGet(video_params, "preset", S("medium")))>>
           [] name = "prores" ->
                <<"-profile:v",
                  ProfileMap(StrOf(DictGet(video_params, "profile", S("standard"))))>>
           [] name \in {"vp9", "av1"} ->
                <<"-crf", StrOf(DictGet(video_params, "crf", I(30))), "-b:v", "0">>
           [] OTHER -> <<>>)

AudioOptions(audio_params) ==
  LET audio_codec == DictGet(audio_params, "codec", None)
      name == IF Truthy(audio_codec) THEN audio_codec[2] ELSE ""
  IN (IF Truthy(audio_codec) THEN <<"-c:a", name>> ELSE <<>>)
     \o (IF name \in {"aac", "mp3", "opus"}
           THEN <<"-b:a", StrOf(DictGet(audio_params, "bitrate", S("128k")))>>
           ELSE <<>>)

\* the default configuration asks for hardware acceleration
_build_ffmpeg_command(input_path, output_path, encoding_params, preserve_metadata) ==
  LET video_params == DictGet(encoding_params, "video", D(<<>>))[2]
      audio_params == DictGet(encoding_params, "audio", D(<<>>))[2]
  IN <<"ffmpeg", "-y", "-i", input_path>>
     \o <<"-hwaccel", "auto">>
     \o (IF video_params # <<>> THEN VideoOptions(video_params) ELSE <<>>)
     \o (IF audio_params # <<>> THEN AudioOptions(audio_params) ELSE <<>>)
     \o (IF preserve_metadata THEN <<"-map_metadata", "0">> ELSE <<>>)
     \o <<output_path>>

\* source_info.get("format").split(",")[0]
FirstFormat(format) ==
  CASE format = "mov,mp4,m4a,3gp,3g2,mj2" -> "mov"
    [] format = "matroska,webm" -> "matroska"
    [] OTHER -> format

\* os.path.join(output_dir, f"{source_base}.{output_format}")
OutputPath(output_format) ==
  CASE output_format = "mp4" -> "output/source.mp4"
    [] output_format = "mov" -> "output/source.mov"
    [] OTHER -> "output/source."

\* one run of the Encoder and what it leaves behind: the exit code, the
\* diagnostic text, whether the output file exists, its size, and what the
\* Prober reports for it
EncoderOutcome(returncode, stderr, exists, size, info) ==
  [returncode |-> returncode, stderr |-> stderr, exists |-> exists, size |-> size,
   info |-> info]

EncoderOutcomes ==
  { EncoderOutcome(1, d, FALSE, 0, CoreInfoError(ProbeExitText)) : d \in Diagnostics }
  \cup
  { EncoderOutcome(0, <<>>, FALSE, 0, CoreInfoError(ProbeExitText)),
    EncoderOutcome(0, <<>>, TRUE, 0, CoreInfoError(ProbeExitText)),
    EncoderOutcome(0, <<>>, TRUE, 50000,
                   CoreInfo("mov,mp4,m4a,3gp,3g2,mj2", 60000, 50000,
                            <<CoreStream("video", "h264", 1920, 1080),
                              CoreStream("audio", "aac", 0, 0)>>)) }

CoreValidation(passed, issues) == [passed |-> passed, issues |-> issues]

\* src/normalizer.py _validate_output
Core_validate_output(outcome, output_info, encoding_params) ==
  IF ~outcome.exists
    THEN CoreValidation(FALSE, << <<"Output file does not exist">> >>)
  ELSE IF outcome.size = 0
    THEN CoreValidation(FALSE, << <<"Output file is empty">> >>)
  ELSE
    LET expected_video == DictGet(DictGet(encoding_params, "video", D(<<>>))[2], "codec", None)
        expected_audio == DictGet(DictGet(encoding_params, "audio", D(<<>>))[2], "codec", None)
        actual_video == FirstCodec(output_info.streams, "video")
        actual_audio == FirstCodec(output_info.streams, "audio")
        issues ==
          (IF output_info.duration <= 0
             THEN << <<"Output file has invalid duration">> >> ELSE <<>>)
          \o (IF /\ Truthy(expected_video)
                 /\ actual_video # <<>>
                 /\ expected_video[2] # actual_video[1]
                THEN << <<"Video codec mismatch: expected ", expected_video[2], ", got ",
                          actual_video[1]>> >>
                ELSE <<>>)
          \o (IF /\ Truthy(expected_audio)
                 /\ actual_audio # <<>>
                 /\ expected_audio[2] # actual_audio[1]
                THEN << <<"Audio codec mismatch: expected ", expected_audio[2], ", got ",
                          actual_audio[1]>> >>
                ELSE <<>>)
    IN CoreValidation(issues = <<>>, issues)

\* str.strip() of a text: whitespace pieces at either end are dropped
Whitespace == {"", " ", "  ", "\n", "\t"}

RECURSIVE StripLeft(_)
StripLeft(text) ==
  IF text # <<>> /\ Head(text) \in Whitespace THEN StripLeft(Tail(text)) ELSE text

RECURSIVE StripRight(_)
StripRight(text) ==
  IF text # <<>> /\ text[Len(text)] \in Whitespace
    THEN StripRight(SubSeq(text, 1, Len(text) - 1))
    ELSE text

Strip(text) == StripRight(StripLeft(text))

\* the mapping normalize returns
CoreFailure(error) ==
  [success |-> FALSE, error |-> error, original |-> <<>>, technical |-> <<>>,
   validation |-> <<>>]

CoreSuccess(source_info, output_info, validation) ==
  [success |-> TRUE, error |-> <<>>, original |-> <<source_info>>,
   technical |-> <<output_info>>, validation |-> <<validation>>]

NoneHasNoSplit == <<"'NoneType' object has no attribute 'split'">>

\* normalize up to the start of the Encoder (lines 248-321): the result it
\* returns early, or the command it runs, and the preset table it leaves
NormalizeBegin(presets, key, request, kind) ==
  LET source_info == _get_media_info(kind)
      ai == IF request.enable_ai THEN _analyze_media_with_gemini(key, kind) ELSE <<>>
      given == request.target_format # <<>> /\ request.target_format[1] # ""
  IN IF ~given /\ source_info.error # <<>>
       THEN [early |-> <<CoreFailure(NoneHasNoSplit)>>, cmd |-> <<>>, presets |-> presets]
       ELSE LET output_format == IF given THEN request.target_format[1]
                                          ELSE FirstFormat(source_info.format)
            IN [early |-> <<>>,
                cmd |-> _build_ffmpeg_command("source", OutputPath(output_format),
                                              ResolvedParams(presets, request, ai), TRUE),
                presets |-> PresetsAfter(presets, request, ai)]

\* normalize from the Encoder's exit to its return (lines 323-370);
\* encoding_params still names the preset's entry of the shared table
NormalizeEnd(presets, request, kind, outcome) ==
  IF outcome.returncode # 0
    THEN CoreFailure(Strip(outcome.stderr))
    ELSE CoreSuccess(_get_media_info(kind), outcome.info,
                     IF request.validate_output
                       THEN Core_validate_output(outcome, outcome.info,
                                                 EncodingParams(presets, request))
                       ELSE CoreValidation(TRUE, <<>>))
\* ------------------------------------------------------------------------
\* Jobs on the shared normalizer: the background tasks of src/api.py
\* (mode "api", interleaved at their awaits) or the loop of
\* BatchProcessor.process (mode "batch", one file after the other)
\* ------------------------------------------------------------------------
MaxJobs == 2

CoreRequests ==
  { CoreRequest(<<>>, <<>>, <<"web">>, FALSE, TRUE),
    CoreRequest(<<"mp4">>, <<"prores">>, <<"web">>, FALSE, TRUE),
    CoreRequest(<<"mp4">>, <<>>, <<"web">>, TRUE, TRUE),
    CoreRequest(<<"mov">>, <<>>, <<>>, FALSE, FALSE) }

CoreJob(request, kind, status) ==
  [request |-> request, source |-> kind, pc |-> "pending", status |-> status,
   dir |-> "none", cmd |-> <<>>, runs |-> 0, outcome |-> <<>>, result |-> <<>>]

\* The service is configured with a Recommender key: without one a request
\* with enableAI runs exactly as the same request without it.
CoreInit ==
  /\ c_mode \in {"api", "batch"}
  /\ c_key = TRUE
  /\ c_presets = InitialPresets
  /\ c_jobs = <<>>
  /\ c_results = <<>>
  /\ ResolveIdle /\ JobIdle /\ LegacyIdle /\ StagesIdle /\ BatchIdle /\ ServiceIdle

\* POST /api/normalize stores the job as pending and creates its task;
\* BatchProcessor.add_file queues a file before process() runs
CoreSubmit ==
  /\ Len(c_jobs) < MaxJobs
  /\ c_mode = "batch" => \A i \in 1..Len(c_jobs) : c_jobs[i].pc = "pending"
  /\ \E request \in CoreRequests, kind \in SourceKinds :
       c_jobs' = Append(c_jobs, CoreJob(request, kind,
                                        IF c_mode = "api" THEN "pending" ELSE "none"))
  /\ UNCHANGED <<c_mode, c_key, c_presets, c_results, outsideCore>>

\* the task starts: jobs[job_id]["status"] = "processing"; the batch loop
\* takes its next file
StartJob(i) ==
  /\ c_jobs[i].pc = "pending"
  /\ c_mode = "batch" => \A k \in 1..(i - 1) : c_jobs[k].pc = "done"
  /\ c_jobs' = [c_jobs EXCEPT ![i].pc = "started",
                              ![i].status = IF c_mode = "api" THEN "processing" ELSE @]
  /\ UNCHANGED <<c_mode, c_key, c_presets, c_results, outsideCore>>

\* how a call of normalize ends for its caller: the API task records the
\* status, the batch loop appends the result
CoreReturn(i, result, dir) ==
  /\ c_jobs' = [c_jobs EXCEPT ![i].pc = "done",
                              ![i].result = <<result>>,
                              ![i].dir = dir,
                              ![i].status = IF c_mode # "api" THEN @
                                            ELSE IF result.success THEN "completed"
                                            ELSE "failed"]
  /\ c_results' = IF c_mode = "batch" THEN Append(c_results, result) ELSE c_results

MakedirsFailed == <<"[Errno 28] No space left on device: ", "work_dir">>

\* normalize from its entry to the await of the Encoder.  os.makedirs of the
\* working directory is outside the try block: its exception reaches the
\* caller, which reports the job failed.  The finally clause deletes the
\* directory and swallows an OSError of rmtree.
BeginJob(i) ==
  /\ c_jobs[i].pc = "started"
  /\ \/ /\ CoreReturn(i, CoreFailure(MakedirsFailed), "none")
        /\ UNCHANGED c_presets
     \/ LET b == NormalizeBegin(c_presets, c_key, c_jobs[i].request, c_jobs[i].source)
        IN IF b.early # <<>>
             THEN /\ \E dir \in {"deleted", "exists"} : CoreReturn(i, b.early[1], dir)
                  /\ UNCHANGED c_presets
             ELSE /\ c_presets' = b.presets
                  /\ c_jobs' = [c_jobs EXCEPT ![i].pc = "encoding",
                                              ![i].dir = "exists",
                                              ![i].cmd = b.cmd,
                                              ![i].runs = @ + 1]
                  /\ UNCHANGED c_results
  /\ UNCHANGED <<c_mode, c_key, outsideCore>>

\* the Encoder cannot read a source that is missing or corrupt
OutcomesFor(kind) ==
  IF kind \in {"missing", "corrupt"}
    THEN { o \in EncoderOutcomes : o.returncode # 0 }
    ELSE EncoderOutcomes

\* the Encoder has exited: normalize runs to its return
EndJob(i) ==
  /\ c_jobs[i].pc = "encoding"
  /\ \E outcome \in OutcomesFor(c_jobs[i].source), dir \in {"deleted", "exists"} :
       LET result == NormalizeEnd(c_presets, c_jobs[i].request, c_jobs[i].source, outcome)
       IN /\ c_jobs' = [c_jobs EXCEPT ![i].pc = "done",
                                      ![i].outcome = <<outcome>>,
                                      ![i].result = <<result>>,
                                      ![i].dir = dir,
                                      ![i].status = IF c_mode # "api" THEN @
                                                    ELSE IF result.success THEN "completed"
                                                    ELSE "failed"]
          /\ c_results' = IF c_mode = "batch" THEN Append(c_results, result) ELSE c_results
  /\ UNCHANGED <<c_mode, c_key, c_presets, outsideCore>>

CoreStart == \E i \in 1..Len(c_jobs) : StartJob(i)
CoreBegin == \E i \in 1..Len(c_jobs) : BeginJob(i)
CoreEnd == \E i \in 1..Len(c_jobs) : EndJob(i)

CoreNext == CoreSubmit \/ CoreStart \/ CoreBegin \/ CoreEnd
\* ------------------------------------------------------------------------
\* formatnormalizer.py: FormatNormalizer.normalize and BatchJob.start
\* ------------------------------------------------------------------------
MaxSources == 3

\* the paths a batch may name; the last one does not exist
LegacyPaths == {"a.mov", "b.mov", "missing.mov"}
PathExists(path) == path # "missing.mov"

\* _get_preset: a fresh mapping on every call
_get_preset(format_type, preset_name) ==
  CASE format_type = "mp4" /\ preset_name = "web" ->
         << <<"c:v", "libx264">>, <<"c:a", "aac">>, <<"b:v", "2M">>, <<"b:a", "128k">>,
            <<"preset", "medium">>, <<"profile:v", "high">>, <<"pix_fmt", "yuv420p">> >>
    [] format_type = "mp4" /\ preset_name = "broadcast" ->
         << <<"c:v", "libx264">>, <<"c:a", "aac">>, <<"b:v", "8M">>, <<"b:a", "384k">>,
            <<"preset", "slow">>, <<"profile:v", "high">> >>
    [] format_type = "mp4" /\ preset_name = "archive" ->
         << <<"c:v", "libx265">>, <<"c:a", "aac">>, <<"crf", "18">>, <<"preset", "slow">>,
            <<"pix_fmt", "yuv420p10le">> >>
    [] format_type = "mov" /\ preset_name = "broadcast" ->
         << <<"c:v", "prores_ks">>, <<"profile:v", "3">>, <<"vendor", "apl0">>,
            <<"c:a", "pcm_s24le">> >>
    [] format_type = "wav" /\ preset_name = "standard" ->
         << <<"c:a", "pcm_s24le">>, <<"ar", "48000">>, <<"ac", "2">> >>
    [] format_type = "mp3" /\ preset_name = "web" ->
         << <<"c:a", "libmp3lame">>, <<"b:a", "192k">>, <<"ar", "44100">> >>
    [] OTHER -> << <<"c:v", "copy">>, <<"c:a", "copy">> >>

\* f"-{param}"
Dash(param) ==
  CASE param = "c:v" -> "-c:v" [] param = "c:a" -> "-c:a" [] param = "b:v" -> "-b:v"
    [] param = "b:a" -> "-b:a" [] param = "preset" -> "-preset"
    [] param = "profile:v" -> "-profile:v" [] param = "pix_fmt" -> "-pix_fmt"
    [] param = "crf" -> "-crf" [] param = "vendor" -> "-vendor" [] param = "ar" -> "-ar"
    [] param = "ac" -> "-ac"
    [] OTHER -> "-"

RECURSIVE PresetOptions(_)
PresetOptions(preset_params) ==
  IF preset_params = <<>> THEN <<>>
  ELSE <<Dash(preset_params[1][1]), preset_params[1][2]>> \o PresetOptions(Tail(preset_params))

\* os.path.splitext(os.path.basename(source))[0]
BaseName(source) ==
  CASE source = "a.mov" -> "a"
    [] source = "b.mov" -> "b"
    [] source = "missing.mov" -> "missing"
    [] OTHER -> source

\* f"{base_name}_normalized.{output_format}" next to the source: one path,
\* spelled in its pieces
Destination(source, output_format) == <<BaseName(source), "_normalized.", output_format>>

LegacyCommand(source, output_format, preset, preserve_metadata) ==
  <<"ffmpeg", "-i", source>>
  \o PresetOptions(_get_preset(output_format, preset))
  \o (IF preserve_metadata THEN <<"-map_metadata", "0">> ELSE <<>>)
  \o Destination(source, output_format)

MediaFormat(container, video_codec, audio_codec, file_size) ==
  [container |-> container, video_codec |-> video_codec, audio_codec |-> audio_codec,
   file_size |-> file_size]

\* str(e) of subprocess.CalledProcessError: the command and the exit status,
\* not the output the tool wrote
CalledProcessErrorText(cmd) ==
  <<"Command '">> \o cmd \o <<"' returned non-zero exit status ", "1", ".">>

\* MediaAnalyzer.analyze: probe is "ok", "nonzero" or "malformed"
analyze(media_path, exists, probe, media_format) ==
  IF ~exists THEN [ok |-> FALSE, val |-> <<"Media file not found: ">> \o media_path]
  ELSE IF probe = "nonzero"
    THEN [ok |-> FALSE,
          val |-> <<"Media analysis failed: ">>
                  \o CalledProcessErrorText(<<"ffprobe">> \o media_path)]
  ELSE IF probe = "malformed"
    THEN [ok |-> FALSE,
          val |-> <<"Failed to parse media analysis output: ", "Expecting value">>]
  ELSE [ok |-> TRUE, val |-> media_format]

\* what the outside world answers during one call of normalize
LegacyWorld(probe, returncode, stderr, output_exists, output_probe) ==
  [probe |-> probe, returncode |-> returncode, stderr |-> stderr,
   output_exists |-> output_exists, output_probe |-> output_probe]

LegacyWorlds ==
  { LegacyWorld(p, 0, <<>>, e, q) :
      p \in {"ok", "nonzero", "malformed"}, e \in BOOLEAN, q \in {"ok", "nonzero"} }
  \cup { LegacyWorld("ok", 1, d, FALSE, "ok") : d \in Diagnostics }

\* the outcome of one call for its caller: the result it returns or the text
\* of the exception it raises, with what the Encoder did
LegacyCall(source, raised, result, encoder_runs, stderr) ==
  [source |-> source, raised |-> raised, result |-> result,
   encoder_runs |-> encoder_runs, stderr |-> stderr]

\* FormatNormalizer.normalize
LegacyNormalize(source, output_format, preset, world) ==
  LET original_format ==
        analyze(<<source>>, PathExists(source), world.probe,
                MediaFormat("mov,mp4,m4a,3gp,3g2,mj2", "h264", "aac", 100000))
      cmd == LegacyCommand(source, output_format, preset, TRUE)
      normalized_format ==
        analyze(Destination(source, output_format), world.output_exists,
                world.output_probe,
                MediaFormat(output_format, "h264", "aac", 50000))
  IN IF ~original_format.ok
       THEN LegacyCall(source, <<original_format.val>>, <<>>, 0, <<>>)
     ELSE IF world.returncode # 0
       THEN LegacyCall(source,
                       << <<"Media normalization failed: ">> \o CalledProcessErrorText(cmd) >>,
                       <<>>, 1, <<world.stderr>>)
     ELSE IF ~normalized_format.ok
       THEN LegacyCall(source, <<normalized_format.val>>, <<>>, 1, <<>>)
     ELSE LegacyCall(source, <<>>,
                     <<[source |-> source,
                        destination |-> Destination(source, output_format),
                        original_format |-> original_format.val,
                        normalized_format |-> normalized_format.val,
                        preset_used |-> preset]>>,
                     1, <<>>)

BatchStatus(total, processed, success, failed, is_complete) ==
  [total_count |-> total, processed_count |-> processed, success_count |-> success,
   failed_count |-> failed, is_complete |-> is_complete]

RECURSIVE SequencesUpTo(_, _)
SequencesUpTo(set, n) ==
  IF n = 0 THEN {<<>>}
  ELSE LET shorter == SequencesUpTo(set, n - 1)
       IN shorter \cup { Append(s, x) : s \in shorter, x \in set }

\* BatchJob.__init__ and the entry of start()
LegacyInit ==
  /\ l_pc = "running"
  /\ l_media_sources \in SequencesUpTo(LegacyPaths, MaxSources) \ {<<>>}
  /\ l_output_format \in {"mp4", "mov"}
  /\ l_preset \in {"web", "broadcast"}
  /\ l_next = 1
  /\ l_status = <<BatchStatus(Len(l_media_sources), 0, 0, 0, FALSE)>>
  /\ l_results = <<>>
  /\ l_calls = <<>>
  /\ ResolveIdle /\ JobIdle /\ CoreIdle /\ StagesIdle /\ BatchIdle /\ ServiceIdle

\* one turn of the loop of start(): normalize the next source, store its
\* result or count its failure, count it processed
LegacyProcess ==
  /\ l_pc = "running"
  /\ l_next <= Len(l_media_sources)
  /\ \E world \in LegacyWorlds :
       LET source == l_media_sources[l_next]
           call == LegacyNormalize(source, l_output_format, l_preset, world)
           status == l_status[1]
       IN /\ l_calls' = Append(l_calls, call)
          /\ l_results' = IF call.raised = <<>>
                            THEN DictPut(l_results, source, call.result[1])
                            ELSE l_results
          /\ l_status' = <<[status EXCEPT
                              !.success_count = IF call.raised = <<>> THEN @ + 1 ELSE @,
                              !.failed_count = IF call.raised # <<>> THEN @ + 1 ELSE @,
                              !.processed_count = @ + 1]>>
  /\ l_next' = l_next + 1
  /\ UNCHANGED <<l_pc, l_media_sources, l_output_format, l_preset, outsideLegacy>>

\* after the last source: is_complete
LegacyComplete ==
  /\ l_pc = "running"
  /\ l_next > Len(l_media_sources)
  /\ l_status' = <<[l_status[1] EXCEPT !.is_complete = TRUE]>>
  /\ l_pc' = "complete"
  /\ UNCHANGED <<l_media_sources, l_output_format, l_preset, l_next, l_results, l_calls,
                 outsideLegacy>>

LegacyNext == LegacyProcess \/ LegacyComplete
\* ------------------------------------------------------------------------
\* The stages of one call, applied to drawn inputs: parameter resolution,
\* the Encoder command and output validation of
\* format_normalizer/normalizer.py ("format_normalizer"), src/normalizer.py
\* ("src") and formatnormalizer.py ("legacy", which has no validation)
\* ------------------------------------------------------------------------
MaxBuilds == 2

StageImpls == {"format_normalizer", "src", "legacy"}

StageFormats == {S("mp4"), S("mov"), S("mkv"), S("webm"), S("wav"), S("xyz")}
StageCodecs == {Absent, S("h264"), S("libx264"), S("hevc"), S("vp9")}
StageOverrides ==
  { Absent,
    D(<< <<"ffmpeg_options", L(<<S("-threads"), I(2)>>)>> >>),
    D(<< <<"audio", D(<< <<"channels", I(2)>>, <<"bitrate", S("192k")>> >>)>> >>) }
StagePresets == PresetInputs \cup {"hq"}

SourceH264Aac ==
  Metadata("mov,mp4,m4a,3gp,3g2,mj2", 100000000, I(60000),
           <<Stream("video", "h264", 1920, 1080), Stream("audio", "aac", 0, 0)>>)

StageSources ==
  { SourceH264Aac,
    Metadata("mov,mp4,m4a,3gp,3g2,mj2", 100000000, I(60000),
             <<Stream("video", "h264", 1920, 1080)>>),
    Metadata("mov,mp4,m4a,3gp,3g2,mj2", 100000000, I(200000),
             <<Stream("video", "h264", 1920, 1080), Stream("audio", "aac", 0, 0)>>),
    Metadata("mp3", 4000000, I(60000), <<Stream("audio", "mp3", 0, 0)>>) }

\* what the Prober may report for the file the Encoder wrote
StageOutputs ==
  { Metadata("mp4", 20000000, I(60000),
             <<Stream("video", "h264", 1920, 1080), Stream("audio", "aac", 0, 0)>>),
    Metadata("mov,mp4,m4a,3gp,3g2,mj2", 20000000, I(60000),
             <<Stream("video", "h264", 1920, 1080), Stream("audio", "aac", 0, 0)>>),
    Metadata("mp4", 2000000, I(60000),
             <<Stream("video", "libx264", 1872, 1053), Stream("audio", "aac", 0, 0)>>),
    Metadata("webm", 500000, I(60000),
             <<Stream("video", "vp8", 1280, 720), Stream("audio", "opus", 0, 0)>>),
    Metadata("webm", 20000000, I(60000),
             <<Stream("video", "vp9", 1920, 1080)>>),
    Metadata("matroska,webm", 1000000, I(60500),
             <<Stream("audio", "aac_lc", 0, 0), Stream("video", "hevc", 1728, 1080)>>),
    Metadata("mp4", 0, I(30000),
             <<Stream("video", "hevc", 1280, 720), Stream("audio", "mp3", 0, 0)>>),
    Metadata("webm", 20000000, I(60000),
             <<Stream("video", "vp9", 1280, 720)>>),
    Metadata("webm", 500000, I(60000),
             <<Stream("video", "vp9", 1920, 1080)>>),
    Metadata("mp4", 20000000, I(60700),
             <<Stream("video", "h264", 1920, 1080), Stream("audio", "aac", 0, 0)>>),
    Metadata("mp4", 20000000, I(30000),
             <<Stream("video", "h264", 1920, 1080), Stream("audio", "aac", 0, 0)>>),
    Metadata("mp4", 20000000, I(201500),
             <<Stream("video", "h264", 1920, 1080), Stream("audio", "aac", 0, 0)>>),
    Metadata("mp4", 20000000, I(0),
             <<Stream("video", "h264", 1920, 1080), Stream("audio", "aac", 0, 0)>>),
    Metadata("mp3", 40000, I(60000), <<Stream("audio", "mp3", 0, 0)>>) }

StagesInit ==
  /\ s_impl \in StageImpls
  /\ s_pc = "resolve"
  /\ s_target_format \in { TargetFormat(f, c, o) :
                             f \in StageFormats, c \in StageCodecs, o \in StageOverrides }
  /\ s_impl = "legacy" => ~DictHas(s_target_format, "codec")
  /\ s_impl # "format_normalizer" => ~DictHas(s_target_format, "parameters")
  /\ s_preset \in StagePresets
  /\ s_source \in StageSources
  /\ s_params = NoParams
  /\ s_cmds = <<>>
  /\ s_output = <<>>
  /\ s_validation = <<>>
  /\ ResolveIdle /\ JobIdle /\ CoreIdle /\ LegacyIdle /\ BatchIdle /\ ServiceIdle

\* the request src/normalizer.py normalize receives
StageRequest(target_format, preset) ==
  CoreRequest(<<DictGet(target_format, "format", S(""))[2]>>,
              IF DictHas(target_format, "codec")
                THEN <<DictGet(target_format, "codec", S(""))[2]>> ELSE <<>>,
              <<preset>>, FALSE, TRUE)

\* the resolved parameters of one call, by implementation: for "src" the
\* locals output_format and encoding_params of normalize (lines 273-291, on a
\* fresh preset table), for "legacy" output_format and preset_params
Resolved(impl, target_format, preset) ==
  CASE impl = "format_normalizer" -> _prepare_format_parameters(target_format, preset)
    [] impl = "src" ->
         LET request == StageRequest(target_format, preset)
         IN Ok(FormatParams(request.target_format[1],
                            IF request.codec = <<>> THEN "" ELSE request.codec[1],
                            preset,
                            ResolvedParams(InitialPresets, request, <<>>)))
    [] OTHER ->
         LET output_format == DictGet(target_format, "format", S(""))[2]
         IN Ok(FormatParams(output_format, "", preset, _get_preset(output_format, preset)))

StageResolve ==
  /\ s_pc = "resolve"
  /\ LET r == Resolved(s_impl, s_target_format, s_preset)
     IN IF r.ok
          THEN /\ s_params' = r.val
               /\ s_pc' = "convert"
          ELSE /\ s_pc' = "raised"
               /\ UNCHANGED s_params
  /\ UNCHANGED <<s_impl, s_target_format, s_preset, s_source, s_cmds, s_output,
                 s_validation, outsideStages>>

\* a builder that drains the custom options it was handed
_convert_media_draining(source_path, output_path, format_params, source_metadata) ==
  [cmd |-> ffmpeg_cmd(source_path, output_path, format_params, source_metadata),
   format_params |->
     [format_params EXCEPT !.parameters =
        IF DictHas(@, "ffmpeg_options") THEN DictPut(@, "ffmpeg_options", L(<<>>)) ELSE @]]

\* _convert_media up to the start of the Encoder: the command, and
\* format_params as the call leaves it (the code only reads it)
_convert_media(source_path, output_path, format_params, source_metadata) ==
  [cmd |-> ffmpeg_cmd(source_path, output_path, format_params, source_metadata),
   format_params |-> format_params]

\* the command of one call and the parameters it leaves, by implementation
Built(impl, format_params, source_metadata) ==
  CASE impl = "format_normalizer" ->
         _convert_media("source", "output", format_params, source_metadata)
    [] impl = "src" ->
         [cmd |-> _build_ffmpeg_command("source", OutputPath(format_params.format),
                                        format_params.parameters, TRUE),
          format_params |-> format_params]
    [] OTHER ->
         [cmd |-> LegacyCommand("a.mov", format_params.format, format_params.preset, TRUE),
          format_params |-> format_params]

StageBuild ==
  /\ s_pc = "convert"
  /\ Len(s_cmds) < MaxBuilds
  /\ LET b == Built(s_impl, s_params, s_source)
     IN /\ s_cmds' = Append(s_cmds, b.cmd)
        /\ s_params' = b.format_params
  /\ UNCHANGED <<s_impl, s_pc, s_target_format, s_preset, s_source, s_output,
                 s_validation, outsideStages>>

\* src/normalizer.py _get_media_info: the mapping it extracts from the
\* Prober's answer
CoreInfoOf(metadata) ==
  CoreInfo(metadata.format_name, metadata.duration[2], metadata.size,
           [i \in 1..Len(metadata.streams) |->
              CoreStream(metadata.streams[i].codec_type, metadata.streams[i].codec_name,
                         metadata.streams[i].width, metadata.streams[i].height)])

\* the validation record of one call, by implementation
Validated(impl, source_metadata, output_metadata, exists, format_params) ==
  IF impl = "format_normalizer"
    THEN _validate_output(source_metadata, output_metadata, format_params)
    ELSE LET info == IF exists THEN CoreInfoOf(output_metadata)
                               ELSE CoreInfoError(ProbeExitText)
             outcome == EncoderOutcome(0, <<>>, exists,
                                       IF exists THEN output_metadata.size ELSE 0, info)
         IN Core_validate_output(outcome, info, format_params.parameters)

\* the Encoder has exited with status 0 and the output is validated.
\* format_normalizer's normalize raises before validation when the output
\* file does not exist; src/normalizer.py validates whatever is there.
StageValidate ==
  /\ s_pc = "convert"
  /\ s_cmds # <<>>
  /\ s_impl \in {"format_normalizer", "src"}
  /\ \E output_metadata \in StageOutputs, exists \in BOOLEAN :
       /\ s_impl = "format_normalizer" => exists
       /\ s_output' = <<[metadata |-> output_metadata, exists |-> exists]>>
       /\ s_validation' = <<Validated(s_impl, s_source, output_metadata, exists, s_params)>>
  /\ s_pc' = "done"
  /\ UNCHANGED <<s_impl, s_target_format, s_preset, s_source, s_params, s_cmds,
                 outsideStages>>

StagesNext == StageResolve \/ StageBuild \/ StageValidate
\* ------------------------------------------------------------------------
\* functions/batch_processor/main.py: batch_processor writes the batch
\* record and publishes one job per source URI; update_batch_status runs
\* once per job result message.  Each invocation reads the record
\* (batch_ref.get()) and later writes the counts it computed
\* (batch_ref.update()); invocations of different messages run concurrently.
\* ------------------------------------------------------------------------
MaxBatch == 3

ResultStatuses == {"completed", "failed"}

\* the fields of the batch document that update_batch_status reads or writes
BatchRecord(source_count, completed_count, failed_count, status) ==
  [source_count |-> source_count, completed_count |-> completed_count,
   failed_count |-> failed_count, status |-> status]

\* one invocation of update_batch_status: the status its message carries,
\* where it stands, and the counts it read
Invocation(status) ==
  [status |-> status, pc |-> "queued", completed_count |-> 0, failed_count |-> 0]

\* a batch message with 1..MaxBatch source URIs has arrived
BatchInit ==
  /\ b_uris \in 1..MaxBatch
  /\ b_record = <<>>
  /\ b_inv = <<>>
  /\ ResolveIdle /\ JobIdle /\ CoreIdle /\ LegacyIdle /\ StagesIdle /\ ServiceIdle

\* batch_processor: the record with source_count = len(source_uris) and both
\* counts 0, then one job per URI; each job ends with one result message
BatchProcessor ==
  /\ b_record = <<>>
  /\ b_record' = <<BatchRecord(b_uris, 0, 0, "processing")>>
  /\ \E statuses \in [1..b_uris -> ResultStatuses] :
       b_inv' = [i \in 1..b_uris |-> Invocation(statuses[i])]
  /\ UNCHANGED <<b_uris, outsideBatch>>

\* update_batch_status up to batch_doc.to_dict(): the counts as stored now
ReadBatch(i) ==
  /\ b_inv[i].pc = "queued"
  /\ b_inv' = [b_inv EXCEPT ![i].pc = "read",
                            ![i].completed_count = b_record[1].completed_count,
                            ![i].failed_count = b_record[1].failed_count]
  /\ UNCHANGED <<b_uris, b_record, outsideBatch>>

\* update_batch_status from the count update to batch_ref.update(): the
\* counts it read, one of them raised by one, and status 'completed' when
\* they add up to source_count
WriteBatch(i) ==
  /\ b_inv[i].pc = "read"
  /\ LET completed_count == b_inv[i].completed_count
                              + (IF b_inv[i].status = "completed" THEN 1 ELSE 0)
         failed_count == b_inv[i].failed_count
                           + (IF b_inv[i].status = "failed" THEN 1 ELSE 0)
     IN b_record' = <<[b_record[1] EXCEPT
                         !.completed_count = completed_count,
                         !.failed_count = failed_count,
                         !.status = IF completed_count + failed_count >= b_record[1].source_count
                                      THEN "completed" ELSE @]>>
  /\ b_inv' = [b_inv EXCEPT ![i].pc = "done"]
  /\ UNCHANGED <<b_uris, outsideBatch>>

BatchRead == \E i \in 1..Len(b_inv) : ReadBatch(i)

BatchWrite == \E i \in 1..Len(b_inv) : WriteBatch(i)

BatchNext == BatchProcessor \/ BatchRead \/ BatchWrite

\* ------------------------------------------------------------------------
\* The request handlers that create job records and the background tasks
\* that finish them: functions/normalize_media/main.py (normalize_media,
\* process_normalization), format_normalizer/app.py (normalize_media,
\* process_normalization_job) and src/api.py (normalize_media, delete_job,
\* process_normalization_job)
\* ------------------------------------------------------------------------
MaxRequests == 3

Services == {"function", "app", "api"}

\* the requests a handler tells apart
RequestKinds(service) ==
  CASE service = "function" ->
         {"json", "upload", "no_source", "no_file", "bad_target_format",
          "unsupported_type", "get", "other_method", "raises"}
    [] service = "app" -> {"accepted", "no_source", "bad_target_format"}
    [] service = "api" -> {"accepted", "no_source"}

\* the requests whose handler starts a background task
StartsTask(service, kind) ==
  CASE service = "function" -> kind \in {"json", "upload"}
    [] service = "app" -> kind = "accepted"
    [] service = "api" -> TRUE

\* the job record when the handler returns: the cloud function writes the
\* record with status 'pending' before it looks at the request and marks it
\* 'failed' only in its exception handler; the API service answers 400
\* before it creates anything; src/api.py stores every request it receives
RecordAfterRequest(service, kind) ==
  CASE service = "function" -> IF kind = "raises" THEN "failed" ELSE "pending"
    [] service = "app" -> IF kind = "accepted" THEN "pending" ELSE "none"
    [] service = "api" -> "pending"

ServiceJob(service, kind) ==
  [kind |-> kind, record |-> RecordAfterRequest(service, kind),
   task |-> IF StartsTask(service, kind) THEN "scheduled" ELSE "none"]

ServiceInit ==
  /\ v_service \in Services
  /\ v_jobs = <<>>
  /\ ResolveIdle /\ JobIdle /\ CoreIdle /\ LegacyIdle /\ StagesIdle /\ BatchIdle

\* one request handled to its response
HandleRequest ==
  /\ Len(v_jobs) < MaxRequests
  /\ \E kind \in RequestKinds(v_service) :
       v_jobs' = Append(v_jobs, ServiceJob(v_service, kind))
  /\ UNCHANGED <<v_service, outsideService>>

\* src/api.py keeps its records in the dict jobs: jobs[job_id][...] = ...
\* raises KeyError once delete_job has removed the entry
StoreRaises(i) == v_service = "api" /\ v_jobs[i].record = "deleted"

\* the background task up to its first await: the record becomes
\* 'processing'; src/api.py raises ValueError for a request without a source
\* URI and its except clause stores 'failed'.  When the store raises, the
\* except and finally clauses raise again and the exception leaves the task.
TaskStart(i) ==
  /\ i <= Len(v_jobs)
  /\ v_jobs[i].task = "scheduled"
  /\ v_jobs' = [v_jobs EXCEPT ![i] =
       IF StoreRaises(i) THEN [@ EXCEPT !.task = "crashed"]
       ELSE IF v_service = "api" /\ @.kind = "no_source"
         THEN [@ EXCEPT !.record = "failed", !.task = "returned"]
       ELSE [@ EXCEPT !.record = "processing", !.task = "awaiting"]]
  /\ UNCHANGED <<v_service, outsideService>>

\* the background task from the end of its await: the normalizer returned
\* (status 'completed', or 'failed' where the result says so) or raised
\* (status 'failed'), and the task stores that status
TaskFinish(i) ==
  /\ i <= Len(v_jobs)
  /\ v_jobs[i].task = "awaiting"
  /\ \E status \in {"completed", "failed"} :
       v_jobs' = [v_jobs EXCEPT ![i] =
         IF StoreRaises(i) THEN [@ EXCEPT !.task = "crashed"]
         ELSE [@ EXCEPT !.record = status, !.task = "returned"]]
  /\ UNCHANGED <<v_service, outsideService>>

\* src/api.py delete_job: 404 for an unknown job, otherwise del jobs[job_id].
\* The handler has no await, so it runs between two steps of the job's task;
\* the task's first step was queued before the job id was returned.
DeleteJob(i) ==
  /\ v_service = "api"
  /\ i <= Len(v_jobs)
  /\ v_jobs[i].record \notin {"none", "deleted"}
  /\ v_jobs[i].task # "scheduled"
  /\ v_jobs' = [v_jobs EXCEPT ![i].record = "deleted"]
  /\ UNCHANGED <<v_service, outsideService>>

ServiceTaskStart == \E i \in 1..MaxRequests : TaskStart(i)

ServiceTaskFinish == \E i \in 1..MaxRequests : TaskFinish(i)

ServiceDelete == \E i \in 1..MaxRequests : DeleteJob(i)

ServiceNext == HandleRequest \/ ServiceTaskStart \/ ServiceTaskFinish \/ ServiceDelete

\* the runtime runs every task it was handed: a task that can take its next
\* step eventually takes it
ServiceFairness ==
  \A i \in 1..MaxRequests : WF_vars(TaskStart(i)) /\ WF_vars(TaskFinish(i))

\* ------------------------------------------------------------------------
\* Specifications
\* ------------------------------------------------------------------------
SpecResolve == ResolveInit /\ [][ResolveNext]_vars

SpecJob == JobInit /\ [][JobNext]_vars

SpecCore == CoreInit /\ [][CoreNext]_vars

SpecLegacy == LegacyInit /\ [][LegacyNext]_vars


SpecStages == StagesInit /\ [][StagesNext]_vars

SpecBatch == BatchInit /\ [][BatchNext]_vars

SpecService == ServiceInit /\ [][ServiceNext]_vars

SpecServiceFair == ServiceInit /\ [][ServiceNext]_vars /\ ServiceFairness

\* ------------------------------------------------------------------------
\* Claims about parameter resolution
\* ------------------------------------------------------------------------
\* the mapping a source holds for a section, empty when it holds none
SectionOf(parameters, sec) ==
  LET v == DictGet(parameters, sec, None) IN IF IsDict(v) THEN v[2] ELSE <<>>

PresetSection(sec) ==
  SectionOf(PresetParameters(r_preset, r_params.codec, r_params.format), sec)

OverrideSection(sec) ==
  LET o == DictGet(r_target_format, "parameters", None)
  IN IF IsDict(o) THEN SectionOf(o[2], sec) ELSE <<>>

AiRecommendations ==
  LET rv == DictGet(r_ai, "encoding_recommendations", D(<<>>))
  IN IF IsDict(rv) THEN rv[2] ELSE <<>>

AiStrategyType == DictGet(SectionOf(AiRecommendations, "bitrate_strategy"), "type", None)
AiStrategyValue == DictGet(SectionOf(AiRecommendations, "bitrate_strategy"), "value", None)

\* the video fields a recommended strategy names, and the value it names for each
AiStrategyKeys ==
  IF AiStrategyValue = None THEN {}
  ELSE CASE AiStrategyType = S("CRF") -> {"crf"}
         [] AiStrategyType = S("CBR") -> {"bitrate", "minrate", "maxrate", "bufsize"}
         [] AiStrategyType = S("VBR") -> {"bitrate"}
         [] OTHER -> {}

AiSectionKeys(sec) ==
  IF sec = "video"
    THEN AiStrategyKeys \cup DictKeys(SectionOf(AiRecommendations, "codec_parameters"))
    ELSE {}

AiValue(key) ==
  IF key \in AiStrategyKeys
    THEN (IF key = "bufsize" THEN CbrBufsize(AiStrategyValue).val ELSE AiStrategyValue)
    ELSE DictGet(SectionOf(AiRecommendations, "codec_parameters"), key, None)

\* the value of the latest source, in the order preset, override, AI, that sets
\* the field
LatestValue(sec, key) ==
  IF key \in AiSectionKeys(sec) THEN AiValue(key)
  ELSE IF DictHas(OverrideSection(sec), key) THEN DictGet(OverrideSection(sec), key, None)
  ELSE DictGet(PresetSection(sec), key, None)

SourceKeys(sec) ==
  DictKeys(PresetSection(sec)) \cup DictKeys(OverrideSection(sec)) \cup AiSectionKeys(sec)

ResolvedValue(sec, key) == DictGet(SectionOf(r_params.parameters, sec), key, Absent)

\* C1: once resolution is over, every field of the video and audio sections
\* holds the value of the latest source (preset, then override, then AI
\* recommendation) that sets it.
C1_LatestSourceWins ==
  r_pc = "convert" =>
    \A sec \in {"video", "audio"} : \A key \in SourceKeys(sec) :
      ResolvedValue(sec, key) = LatestValue(sec, key)

\* C2: with AI enabled neither analyze_media_content nor
\* _apply_ai_recommendations raises, whatever the Recommender does, and a
\* failed or unparseable answer leaves the fallback recommendation in use.
C2_RecommenderNeverFailsJob ==
  r_enable_ai =>
    /\ r_raised_in \notin {"analyze", "apply"}
    /\ (r_pc \in {"apply", "convert"} /\ r_outcome.kind \in {"call_fails", "unparseable"}
          => AiRecommendations = _get_fallback_recommendations(r_params))


\* ------------------------------------------------------------------------
\* Claims about parameter resolution: the caller's overrides
\* ------------------------------------------------------------------------
\* the merge of mapping e into mapping d at every depth: two maps under one
\* key are merged key by key, any other value replaces what was there
RECURSIVE DeepMerge(_, _)
DeepMerge(d, e) ==
  IF e = <<>> THEN d
  ELSE LET key == e[1][1]
           value == e[1][2]
           existing == DictGet(d, key, None)
       IN DeepMerge(DictPut(d, key,
                            IF DictHas(d, key) /\ IsDict(existing) /\ IsDict(value)
                              THEN D(DeepMerge(existing[2], value[2]))
                              ELSE value),
                    Tail(e))

\* the caller's "parameters" mapping, empty when there is none
GivenOverrides ==
  LET o == DictGet(r_target_format, "parameters", None)
  IN IF IsDict(o) THEN o[2] ELSE <<>>

\* _prepare_format_parameters has returned and nothing has been applied since
Prepared == r_pc = "analyze" \/ (r_pc = "convert" /\ ~r_enable_ai)

\* C22: _prepare_format_parameters never raises on the caller's overrides,
\* and the parameters it returns are the preset's parameters with the
\* overrides merged in at every depth: maps under one key merge key by key,
\* keys the override does not name keep the preset's value, and any other
\* override value replaces the existing one.
C22_OverridesDeepMerged ==
  /\ r_raised_in # "prepare"
  /\ Prepared =>
       r_params.parameters
         = DeepMerge(PresetParameters(r_preset, r_params.codec, r_params.format),
                     GivenOverrides)

\* ------------------------------------------------------------------------
\* Claims about parameter resolution: the AI recommendations
\* ------------------------------------------------------------------------
\* C23: applying the AI recommendations leaves the set of top-level keys of
\* the resolved parameters as it was, and changes nothing outside the video
\* and audio sections.
C23_AiAddsNoSection ==
  [][(r_pc = "apply" /\ r_pc' = "convert") =>
       /\ DictKeys(r_params'.parameters) = DictKeys(r_params.parameters)
       /\ \A key \in DictKeys(r_params.parameters) \ {"video", "audio"} :
            DictGet(r_params'.parameters, key, Absent)
              = DictGet(r_params.parameters, key, Absent)]_vars

\* the characters of the recommended strategy value, <<>> unless it is text
AiRateChars == IF IsStr(AiStrategyValue) THEN Chars(AiStrategyValue[2]) ELSE <<>>

\* the recommended value is a number followed by the unit suffix k
AiRateInK ==
  /\ Len(AiRateChars) >= 2
  /\ AiRateChars[Len(AiRateChars)] = "k"
  /\ \A i \in 1..(Len(AiRateChars) - 1) : DigitValue(AiRateChars[i]) >= 0

\* the number in front of the unit suffix
AiRateNumber == DigitsValue(SubSeq(AiRateChars, 1, Len(AiRateChars) - 1), 0)

\* C24: after a CBR recommendation whose value is a number N followed by k,
\* the resolved video section has bitrate, minrate and maxrate equal to that
\* value and bufsize equal to the number 2*N followed by k.
C24_CbrBufsizeIsTwice ==
  /\ r_pc = "convert"
  /\ r_enable_ai
  /\ AiStrategyType = S("CBR")
  /\ AiRateInK
  /\ DictHas(r_params.parameters, "video")
  => /\ \A key \in {"bitrate", "minrate", "maxrate"} :
          ResolvedValue("video", key) = AiStrategyValue
     /\ Str(ResolvedValue("video", "bufsize")) = DecimalText(2 * AiRateNumber) \o "k"
\* ------------------------------------------------------------------------
\* Claims about a job of the API service or the cloud function
\* ------------------------------------------------------------------------
StatusRank(status) ==
  CASE status = "pending" -> 0
    [] status = "processing" -> 1
    [] OTHER -> 2

\* C3: the recorded status only moves forward along pending, processing,
\* completed/failed, and a status of completed or failed never changes again,
\* whatever a later step of the same task does.
C3_StatusOnlyAdvances ==
  [][j_status' # j_status =>
       /\ StatusRank(j_status') > StatusRank(j_status)
       /\ j_status \notin {"completed", "failed"}]_vars

\* C5: a validation failure does not fail the job: the result normalize
\* returns carries the validation record whenever validation was requested,
\* a record with passed = FALSE lists at least one issue, and a job recorded
\* as completed stores that result, validation record included.
C5_FailedValidationIsReported ==
  /\ j_failed_at # "finish"
  /\ j_result # <<>> =>
       /\ j_in.validate_output =>
            j_result[1].validation =
              <<_validate_output(j_source_metadata, j_output_metadata, j_params)>>
       /\ \A i \in 1..Len(j_result[1].validation) :
            ~j_result[1].validation[i].passed => j_result[1].validation[i].issues # <<>>
  /\ j_status = "completed" => j_result # <<>> /\ j_stored.result = j_result

\* a job recorded as completed whose validation found a fatal mismatch
C5_Witness ==
  /\ j_status = "completed"
  /\ j_encoder_runs = 1
  /\ j_output_exists
  /\ j_stored.result # <<>>
  /\ j_stored.result[1].validation # <<>>
  /\ ~j_stored.result[1].validation[1].passed

\* C8: when a job has ended, its working directory is gone.
C8_WorkingDirectoryDeleted ==
  j_pc \in {"done", "crashed"} => j_dir # "exists"

\* ------------------------------------------------------------------------
\* Claims about jobs on the shared normalizer of src/normalizer.py
\* ------------------------------------------------------------------------
Done(i) == c_jobs[i].pc = "done"
ResultOf(i) == c_jobs[i].result[1]

\* C4: a job is reported successful (and recorded completed) only if its
\* Encoder run exited with code zero and left an output file.
C4_CompletedNeedsOutput ==
  \A i \in 1..Len(c_jobs) :
    (Done(i) /\ (ResultOf(i).success \/ c_jobs[i].status = "completed")) =>
      /\ c_jobs[i].outcome # <<>>
      /\ c_jobs[i].outcome[1].returncode = 0
      /\ c_jobs[i].outcome[1].exists

\* what normalize runs and returns for job i on a normalizer no other job
\* has used, given the same answers of the file system and the Encoder
AloneBegin(i) == NormalizeBegin(InitialPresets, c_key, c_jobs[i].request, c_jobs[i].source)
AloneCmd(i) ==
  IF ResultOf(i).error = MakedirsFailed THEN <<>> ELSE AloneBegin(i).cmd
AloneResult(i) ==
  IF ResultOf(i).error = MakedirsFailed THEN ResultOf(i)
  ELSE IF AloneBegin(i).early # <<>> THEN AloneBegin(i).early[1]
  ELSE NormalizeEnd(AloneBegin(i).presets, c_jobs[i].request, c_jobs[i].source,
                    c_jobs[i].outcome[1])

\* C6: a batch yields one result per processed file, in order; a file whose
\* source is missing yields a failed result; and the Encoder command and the
\* result of every file are those of the same file processed alone.
C6_BatchIsolation ==
  c_mode = "batch" =>
    /\ Len(c_results) = Cardinality({ i \in 1..Len(c_jobs) : Done(i) })
    /\ \A i \in 1..Len(c_jobs) :
         Done(i) =>
           /\ c_results[i] = ResultOf(i)
           /\ c_jobs[i].source = "missing" => ~ResultOf(i).success
           /\ c_jobs[i].cmd = AloneCmd(i)
           /\ ResultOf(i) = AloneResult(i)

\* C7: the preset table of the shared normalizer always equals its initial
\* value, whatever jobs have run or are running.
C7_PresetTableUnchanged == c_presets = InitialPresets

\* C9: a job whose source cannot be probed never reaches the Encoder and
\* ends failed, with or without an explicit target format.
C9_ProbeFailureStopsJob ==
  \A i \in 1..Len(c_jobs) :
    c_jobs[i].source # "ok" =>
      /\ c_jobs[i].runs = 0
      /\ Done(i) => ~ResultOf(i).success /\ c_jobs[i].status # "completed"

\* ------------------------------------------------------------------------
\* Claims about formatnormalizer.py
\* ------------------------------------------------------------------------
\* C10: when the Encoder exits with a non-zero code the call fails and the
\* error its caller receives contains the Encoder's diagnostic text.
C10_DiagnosticReachesCaller ==
  \A k \in 1..Len(l_calls) :
    l_calls[k].stderr # <<>> =>
      /\ l_calls[k].raised # <<>>
      /\ Contains(l_calls[k].raised[1], l_calls[k].stderr[1])


\* ------------------------------------------------------------------------
\* Claims about the counters of BatchJob
\* ------------------------------------------------------------------------
\* the sources start() has handled so far
HandledCount == l_next - 1

\* the counters agree with each other and with the stored results
CountersConsistent ==
  LET status == l_status[1]
  IN /\ status.processed_count = HandledCount
     /\ status.processed_count = status.success_count + status.failed_count
     /\ status.processed_count <= status.total_count
     /\ Len(l_results) = status.success_count
     /\ status.is_complete =>
          /\ HandledCount = Len(l_media_sources)
          /\ status.processed_count = status.total_count

\* C30: after each source handled by BatchJob.start, processed_count =
\* success_count + failed_count <= total_count and there are as many stored
\* results as success_count; is_complete is true only once every source has
\* been handled, with processed_count = total_count, and it never goes back
\* to false.
C30_BatchJobCounters ==
  /\ [](l_status # <<>> => CountersConsistent)
  /\ [][l_status # <<>> /\ l_status[1].is_complete => l_status'[1].is_complete]_vars


\* ------------------------------------------------------------------------
\* Claims about the stages: the Encoder command
\* ------------------------------------------------------------------------
VideoFlags == {"-c:v", "-crf", "-preset", "-profile:v", "-level", "-pix_fmt", "-maxrate",
               "-minrate", "-bufsize", "-qscale:v", "-b:v", "-movflags"}
AudioFlags == {"-c:a", "-b:a", "-ar", "-ac"}

\* the extra encoder flags the caller gave, as text, in the caller's order
GivenFlags ==
  LET o == DictGet(s_target_format, "parameters", None)
      flags == IF IsDict(o) THEN DictGet(o[2], "ffmpeg_options", L(<<>>))[2] ELSE <<>>
  IN [i \in 1..Len(flags) |-> Str(flags[i])]

StageOutputPath ==
  IF s_impl = "format_normalizer" THEN "output" ELSE OutputPath(s_params.format)

\* C11: every command built by _convert_media or _build_ffmpeg_command starts
\* with the program and the input, puts every video option before every audio
\* option, then the caller's extra flags verbatim and in the caller's order,
\* and ends with the output path: nothing stands between the extra flags and
\* the output path.
C11_GroupOrder ==
  s_impl \in {"format_normalizer", "src"} =>
    \A k \in 1..Len(s_cmds) :
      LET cmd == s_cmds[k]
          n == Len(cmd)
          e == Len(GivenFlags)
      IN /\ SubSeq(cmd, 1, 4) = <<"ffmpeg", "-y", "-i", "source">>
         /\ cmd[n] = StageOutputPath
         /\ SubSeq(cmd, n - e, n - 1) = GivenFlags
         /\ \A i, j \in 5..(n - 1 - e) :
              cmd[i] \in AudioFlags /\ cmd[j] \in VideoFlags => j < i

HasOption(cmd, flags) == \E i \in 1..Len(cmd) : cmd[i] \in flags

\* C12: a built command holds video options exactly when the source has a
\* video stream and the resolved parameters have a video section, and audio
\* options exactly when the source has an audio stream and the parameters
\* have an audio section.
C12_BranchesFollowStreams ==
  s_impl \in {"format_normalizer", "src"} =>
    \A k \in 1..Len(s_cmds) :
      /\ HasOption(s_cmds[k], VideoFlags)
           <=> (HasStream(s_source, "video") /\ DictHas(s_params.parameters, "video"))
      /\ HasOption(s_cmds[k], AudioFlags)
           <=> (HasStream(s_source, "audio") /\ DictHas(s_params.parameters, "audio"))

NamedPresets == {"web", "social", "broadcast", "archive", "mobile", "hq", "standard"}

StageResolved == s_pc \in {"convert", "done"}

\* the video codec of the resolved parameters, <<>> when they name none
ResolvedVideoCodec ==
  IF s_impl = "format_normalizer" THEN <<s_params.codec>>
  ELSE LET v == DictGet(s_params.parameters, "video", None)
       IN IF IsDict(v) /\ DictHas(v[2], "codec") THEN <<DictGet(v[2], "codec", None)[2]>>
          ELSE <<>>

\* C14: resolved with a named preset, no codec and no overrides, the video
\* codec is the one the format-to-codec table gives for the requested format,
\* whatever the preset.
C14_CodecFollowsFormat ==
  /\ s_impl \in {"format_normalizer", "src"}
  /\ StageResolved
  /\ s_preset \in NamedPresets
  /\ ~DictHas(s_target_format, "codec")
  /\ ~DictHas(s_target_format, "parameters")
  => ResolvedVideoCodec = <<_get_default_codec(s_params.format)>>

\* C15: resolving with a preset name outside the named presets raises
\* nothing and gives the format, codec and parameters that preset
\* "standard" gives for the same request.
C15_UnknownPresetIsStandard ==
  s_pc # "resolve" /\ s_preset \notin NamedPresets =>
    /\ s_pc # "raised"
    /\ LET standard == Resolved(s_impl, s_target_format, "standard")
       IN /\ standard.ok
          /\ s_params.format = standard.val.format
          /\ s_params.codec = standard.val.codec
          /\ s_params.parameters = standard.val.parameters

\* ------------------------------------------------------------------------
\* Claims about the stages: output validation
\* ------------------------------------------------------------------------
StageValidated == s_validation # <<>>
OutputMetadata == s_output[1].metadata
Issues == s_validation[1].issues

SameCodec(a, b) ==
  \/ a = b
  \/ {a, b} \subseteq {"h264", "libx264"}
  \/ {a, b} \subseteq {"h265", "hevc", "libx265"}

HasIssue(kinds) == \E i \in 1..Len(Issues) : Issues[i][1] \in kinds

CodecIssue == {"video_codec", "Video codec mismatch: expected "}

\* C16: when an output with a video stream is validated against a requested
\* video codec, a codec issue is recorded, and the validation fails, exactly
\* when the output's codec is neither the requested name nor in its alias
\* class ({h264, libx264}, {h265, hevc, libx265}).
C16_CodecAliases ==
  /\ StageValidated
  /\ ResolvedVideoCodec # <<>>
  /\ s_output[1].exists
  /\ OutputMetadata.size > 0
  /\ HasStream(OutputMetadata, "video")
  => /\ HasIssue(CodecIssue)
          <=> ~SameCodec(ResolvedVideoCodec[1], FirstStream(OutputMetadata, "video").codec_name)
     /\ HasIssue(CodecIssue) => ~s_validation[1].passed

\* the output is missing or empty
NoOutput == ~s_output[1].exists \/ OutputMetadata.size <= 0

\* C17: when the validated output is missing or has zero byte size, the
\* validation is not passed and its issue list holds exactly one issue, the
\* missing/zero-size one: no other check has added an issue.
C17_NoOutputShortCircuits ==
  (StageValidated /\ NoOutput)
  => /\ ~s_validation[1].passed
     /\ Len(Issues) = 1
     /\ Issues[1] \in {<<"zero_size">>, <<"Output file does not exist">>,
                       <<"Output file is empty">>}

\* ------------------------------------------------------------------------
\* Claims about the stages: the end-to-end scenario
\* ------------------------------------------------------------------------
\* the positions of option flag with value text in a command
At(cmd, flag, text) == { i \in 1..(Len(cmd) - 1) : cmd[i] = flag /\ cmd[i + 1] = text }

\* text of parameters[section][key], "" when absent
ParamText(section, key) ==
  LET s == DictGet(s_params.parameters, section, None)
  IN IF IsDict(s) /\ DictHas(s[2], key) THEN Str(DictGet(s[2], key, None)) ELSE ""

ScenarioWeb ==
  /\ s_impl = "format_normalizer"
  /\ s_target_format = TargetFormat(S("mp4"), Absent, Absent)
  /\ s_preset = "web"
  /\ s_source = SourceH264Aac

\* the output descriptor agrees with the source in container, streams and
\* duration and is not empty
MatchingOutput ==
  /\ OutputMetadata.format_name = s_source.format_name
  /\ OutputMetadata.streams = s_source.streams
  /\ OutputMetadata.duration = s_source.duration
  /\ OutputMetadata.size > 0

\* C18: for the H.264 + AAC source, target mp4 and preset web, the resolved
\* parameters are h264 with CRF 23 and encoder preset medium and aac at 128k;
\* every built command holds -c:v h264, -crf 23, -preset medium in this order
\* and after them -c:a aac, -b:a 128k; and validating an output that matches
\* the source passes with no issue.
C18_ScenarioWeb ==
  ScenarioWeb =>
    /\ StageResolved =>
         /\ s_params.codec = "h264"
         /\ ParamText("video", "crf") = "23"
         /\ ParamText("video", "preset") = "medium"
         /\ ParamText("audio", "codec") = "aac"
         /\ ParamText("audio", "bitrate") = "128k"
    /\ \A k \in 1..Len(s_cmds) :
         \E v \in At(s_cmds[k], "-c:v", "h264"), c \in At(s_cmds[k], "-crf", "23"),
            p \in At(s_cmds[k], "-preset", "medium"), a \in At(s_cmds[k], "-c:a", "aac"),
            b \in At(s_cmds[k], "-b:a", "128k") :
           v < c /\ c < p /\ p < a /\ a < b
    /\ (StageValidated /\ MatchingOutput) =>
         s_validation[1].passed /\ Issues = <<>>

\* ------------------------------------------------------------------------
\* Claims about the stages: the non-fatal checks of format_normalizer
\* ------------------------------------------------------------------------
\* the issues that come with passed = false
FatalIssue == {"format", "video_codec", "audio_codec", "zero_size", "error"}

IssuesOf(kind) == { i \in 1..Len(Issues) : Issues[i][1] = kind }

Pixels(metadata) ==
  FirstStream(metadata, "video").width * FirstStream(metadata, "video").height

BothHaveVideo == HasStream(s_source, "video") /\ HasStream(OutputMetadata, "video")

OutputVideoIs(width, height) ==
  /\ FirstStream(OutputMetadata, "video").width = width
  /\ FirstStream(OutputMetadata, "video").height = height

\* C19: validation records a resolution issue exactly when the pixel count of
\* the output's first video stream is more than 10% below the source's (none
\* for 1920x1080 or 1872x1053 against 1920x1080, one for 1280x720), and the
\* issue does not fail the validation: it is passed unless a fatal issue is
\* recorded.
C19_ResolutionIssue ==
  (s_impl = "format_normalizer" /\ StageValidated /\ BothHaveVideo)
  => /\ IssuesOf("resolution") # {} <=> 100 * Pixels(OutputMetadata) < 90 * Pixels(s_source)
     /\ Cardinality(IssuesOf("resolution")) <= 1
     /\ Pixels(s_source) = 1920 * 1080 =>
          /\ OutputVideoIs(1920, 1080) \/ OutputVideoIs(1872, 1053)
               => IssuesOf("resolution") = {}
          /\ OutputVideoIs(1280, 720) => Cardinality(IssuesOf("resolution")) = 1
     /\ s_validation[1].passed <=> ~HasIssue(FatalIssue)

\* a validation that passed with a resolution issue as its only issue
C19_Witness ==
  /\ s_impl = "format_normalizer"
  /\ StageValidated
  /\ BothHaveVideo
  /\ OutputVideoIs(1280, 720)
  /\ s_validation[1].passed
  /\ Cardinality(IssuesOf("resolution")) = 1
  /\ IssuesOf("small") = {}

\* C20: validation records a suspiciously-small issue exactly when the output
\* byte size is above zero and strictly below 1% of a non-zero source byte
\* size (for a source of 100,000,000 bytes: recorded at 500,000 bytes, not at
\* 2,000,000), and whenever it is recorded the validation is passed unless
\* another, fatal issue is recorded.
C20_SmallOutputIssue ==
  (s_impl = "format_normalizer" /\ StageValidated)
  => /\ IssuesOf("small") # {}
          <=> /\ OutputMetadata.size > 0
              /\ s_source.size > 0
              /\ 100 * OutputMetadata.size < s_source.size
     /\ Cardinality(IssuesOf("small")) <= 1
     /\ s_source.size = 100000000 =>
          /\ OutputMetadata.size = 500000 => Cardinality(IssuesOf("small")) = 1
          /\ OutputMetadata.size = 2000000 => IssuesOf("small") = {}
     /\ IssuesOf("small") # {} =>
          (s_validation[1].passed <=> ~HasIssue(FatalIssue \ {"zero_size"}))

\* a validation that passed with a suspiciously-small issue as its only issue
C20_Witness ==
  /\ s_impl = "format_normalizer"
  /\ StageValidated
  /\ s_source.size = 100000000
  /\ OutputMetadata.size = 500000
  /\ s_validation[1].passed
  /\ Cardinality(IssuesOf("small")) = 1
  /\ Len(Issues) = 1

\* ------------------------------------------------------------------------
\* Claims about the stages: the duration check
\* ------------------------------------------------------------------------
DurationIssue == {"duration", "Output file has invalid duration"}

\* the issues that do not fail a validation
NonFatalIssue == {"resolution", "small"} \cup DurationIssue

\* |output duration - source duration|, in milliseconds
DurationGap ==
  IF OutputMetadata.duration[2] >= s_source.duration[2]
    THEN OutputMetadata.duration[2] - s_source.duration[2]
    ELSE s_source.duration[2] - OutputMetadata.duration[2]

\* C21: validation of an existing, non-empty output records a duration issue
\* exactly when the source duration is above 0 and the gap between the two
\* durations is above 1 second and above 1% of the source duration, and the
\* duration issue does not fail the validation: it is passed unless some
\* other, fatal issue is recorded.
C21_DurationIssue ==
  /\ StageValidated
  /\ s_output[1].exists
  /\ OutputMetadata.size > 0
  => /\ HasIssue(DurationIssue)
          <=> /\ s_source.duration[2] > 0
              /\ DurationGap > 1000
              /\ 100 * DurationGap > s_source.duration[2]
     /\ s_validation[1].passed
          <=> \A i \in 1..Len(Issues) : Issues[i][1] \in NonFatalIssue

\* ------------------------------------------------------------------------
\* Claims about the stages: codec aliases
\* ------------------------------------------------------------------------
\* the codec the caller named, "" when none
GivenCodec == DictGet(s_target_format, "codec", S(""))[2]

\* the name the aliases of a codec stand for
CanonicalCodec(codec) ==
  CASE codec \in {"h265", "hevc", "libx265"} -> "h265"
    [] codec \in {"h264", "libx264"} -> "h264"
    [] OTHER -> codec

\* the parameters the same request resolves to when it names the codec by
\* its canonical name
CanonicalParams ==
  Resolved(s_impl, DictPut(s_target_format, "codec", S(CanonicalCodec(GivenCodec))),
           s_preset).val

\* C25: a request that names its codec by an alias (hevc for h265, libx264
\* for h264) resolves to the same codec as the request with the canonical
\* name, builds the same command and gets the same validation.
C25_AliasesResolveAlike ==
  (s_impl = "format_normalizer" /\ GivenCodec \in {"hevc", "libx264"})
  => /\ StageResolved => s_params.codec = CanonicalParams.codec
     /\ \A k \in 1..Len(s_cmds) :
          s_cmds[k] = Built(s_impl, CanonicalParams, s_source).cmd
     /\ StageValidated =>
          s_validation[1] = Validated(s_impl, s_source, OutputMetadata,
                                      s_output[1].exists, CanonicalParams)

\* ------------------------------------------------------------------------
\* Claims about the stages: the audio branch
\* ------------------------------------------------------------------------
\* the positions of a flag in a command
Positions(cmd, flag) == { i \in 1..Len(cmd) : cmd[i] = flag }

\* every position of flag a lies before every position of flag b
Before(cmd, a, b) == \A i \in Positions(cmd, a), j \in Positions(cmd, b) : i < j

\* C26: in every built command the audio codec flag -c:a stands before the
\* other audio options, and these stand in the order -b:a, -ar, -ac, whatever
\* the order of the keys in the audio section.
C26_AudioOrder ==
  s_impl \in {"format_normalizer", "src"} =>
    \A k \in 1..Len(s_cmds) :
      /\ \A flag \in {"-b:a", "-ar", "-ac"} : Before(s_cmds[k], "-c:a", flag)
      /\ Before(s_cmds[k], "-b:a", "-ar")
      /\ Before(s_cmds[k], "-b:a", "-ac")
      /\ Before(s_cmds[k], "-ar", "-ac")
\* ------------------------------------------------------------------------
\* Claims about the batch record
\* ------------------------------------------------------------------------
\* every result message of the batch has been processed
AllResultsProcessed ==
  /\ b_record # <<>>
  /\ \A i \in 1..Len(b_inv) : b_inv[i].pc = "done"

\* the number of processed result messages that carry the status
ProcessedWith(status) ==
  Cardinality({i \in 1..Len(b_inv) : b_inv[i].pc = "done" /\ b_inv[i].status = status})

\* C27: the counts of the batch record never add up to more than the number
\* of jobs N, and once update_batch_status has processed one result message
\* per job, under any interleaving of its invocations, no result is missing
\* from the counts: they add up to N and the status is 'completed'.
C27_BatchCountsComplete ==
  b_record # <<>> =>
    /\ b_record[1].completed_count + b_record[1].failed_count <= b_record[1].source_count
    /\ AllResultsProcessed =>
         /\ b_record[1].completed_count = ProcessedWith("completed")
         /\ b_record[1].failed_count = ProcessedWith("failed")
         /\ b_record[1].completed_count + b_record[1].failed_count
              = b_record[1].source_count
         /\ b_record[1].status = "completed"

\* ------------------------------------------------------------------------
\* Claims about job records and their background tasks
\* ------------------------------------------------------------------------
\* request i has left a job record with that status
RecordIs(i, statuses) == i <= Len(v_jobs) /\ v_jobs[i].record \in statuses

\* C28: every job record a request creates with status 'pending' eventually
\* has status 'completed' or 'failed' (or is deleted by the client), whatever
\* the request was: none stays 'pending' or 'processing' forever.
C28_PendingIsSettled ==
  \A i \in 1..MaxRequests :
    RecordIs(i, {"pending"}) ~> RecordIs(i, {"completed", "failed", "deleted"})

\* C29: no interleaving of delete_job with the job's background task makes
\* the task end with an unhandled exception, and a deleted job never comes
\* back into the job store.
C29_DeleteIsSafe ==
  /\ [](\A i \in 1..Len(v_jobs) : v_jobs[i].task # "crashed")
  /\ [][\A i \in 1..Len(v_jobs) :
          v_jobs[i].record = "deleted" => v_jobs'[i].record = "deleted"]_vars

====
